---- MODULE Spec2Model ----
(***************************************************************************)
(* Orchestration core of orchestrai-interview-lab: the phase state machine *)
(* (orchestrator/state_machine.py), the message bus                        *)
(* (orchestrator/message_bus.py) and the step handlers of main.py that     *)
(* drive a session through the phases.                                     *)
(***************************************************************************)
EXTENDS Integers, Sequences, FiniteSets, TLC

VARIABLES
    ctx,             \* the InterviewContext handed to the StateMachine
    state_handlers,  \* StateMachine.state_handlers
    sm_ret,          \* outcome of the last StateMachine call on ctx
    query,           \* last side-effect-free StateMachine query and its result
    flow,            \* a sequence of phases a caller builds to have it validated
    jumps,           \* how many steps of flow were not taken from the table
    message_history,     \* MessageBus.message_history
    message_queue,       \* MessageBus.message_queue, oldest first
    subscribers,         \* MessageBus.subscribers, in insertion order
    broadcast_callbacks, \* MessageBus.broadcast_callbacks
    tasks,               \* callback tasks created by publish and not yet run
    getters,             \* Queue._getters: suspended get_message calls, oldest first
    resuming,            \* get_message calls woken by a put, in the order they resume
    received,            \* what the get_message calls returned, in return order
    delivered,           \* the callback invocations the event loop has made
    bus_ret,             \* last MessageBus call and its result
    now,                 \* the reading of the clock (datetime.utcnow)
    active_sessions,     \* main.active_sessions: session id -> InterviewContext
    req,                 \* per session, the step request in flight and where it waits
    http_ret             \* the last HTTP response a handler of main.py gave

smVars == <<ctx, state_handlers, sm_ret>>
tableVars == <<query>>
flowVars == <<flow, jumps>>
busVars == <<message_history, message_queue, subscribers, broadcast_callbacks,
             tasks, getters, resuming, received, delivered, bus_ret>>
vars == <<ctx, state_handlers, sm_ret, query, flow, jumps,
          message_history, message_queue, subscribers, broadcast_callbacks,
          tasks, getters, resuming, received, delivered, bus_ret, now,
          active_sessions, req, http_ret>>
wfVars == <<active_sessions, req, http_ret>>

(***************************************************************************)
(* Bounds of the model                                                     *)
(***************************************************************************)
MaxMsgs == 2        \* longest context.messages explored next to the state machine
MaxJumps == 1       \* steps of a flow that may leave the table
MaxFlow == 12       \* longest flow handed to validate_flow
MaxPublished == 3   \* messages published while the history queries are explored
MaxLimit == 4       \* largest explicit limit passed to get_history
MaxLong == 52       \* messages published while the default limit is explored
MaxOdd == 1         \* addressed messages among them
MaxSubs == 2        \* callbacks registered on the bus
MaxBusPublished == 2 \* publish and broadcast calls while dispatch is explored
MaxCallers == 2     \* tasks that call get_message
MaxGets == 2        \* get_message calls made
MaxWait == 1        \* longest time a get_message call is watched waiting
MaxQueued == 2      \* messages published while the queue is explored
MaxSessions == 1    \* interview sessions started
MaxPeers == 2       \* sessions that run side by side
MaxLog == 3         \* longest message log of one session
MaxAnswers == 2     \* answers one candidate submits
MaxClock == 1       \* last reading of the clock

(***************************************************************************)
(* models/enums.py and the transition table of StateMachine.__init__       *)
(***************************************************************************)
None == "None"

\* the members of the InterviewState enumeration
InterviewState ==
    {"INIT", "RESUME_ANALYSIS", "DSA_PHASE", "SYSTEM_DESIGN_PHASE",
     "BEHAVIORAL_PHASE", "CROSS_AGENT_DEBATE", "FINAL_DECISION", "COMPLETED"}

\* a table in which the code-evaluation phase leads back to the coding phase
transitions_cyclic ==
    ( "INIT"                :> <<"RESUME_ANALYSIS">> ) @@
    ( "RESUME_ANALYSIS"     :> <<"SKILL_PROFILING">> ) @@
    ( "SKILL_PROFILING"     :> <<"DSA_PHASE">> ) @@
    ( "DSA_PHASE"           :> <<"SYSTEM_DESIGN_PHASE", "CODE_EVALUATION">> ) @@
    ( "SYSTEM_DESIGN_PHASE" :> <<"BEHAVIORAL_PHASE">> ) @@
    ( "BEHAVIORAL_PHASE"    :> <<"CROSS_AGENT_DEBATE">> ) @@
    ( "CODE_EVALUATION"     :> <<"DSA_PHASE">> ) @@
    ( "CROSS_AGENT_DEBATE"  :> <<"FINAL_DECISION">> ) @@
    ( "FINAL_DECISION"      :> <<"REPORT_GENERATION">> ) @@
    ( "REPORT_GENERATION"   :> <<"COMPLETED">> ) @@
    ( "COMPLETED"           :> <<>> )

\* self.transitions: phase -> list of successors, in declaration order
transitions ==
    ( "INIT"                :> <<"RESUME_ANALYSIS">> ) @@
    ( "RESUME_ANALYSIS"     :> <<"SKILL_PROFILING">> ) @@
    ( "SKILL_PROFILING"     :> <<"DSA_PHASE">> ) @@
    ( "DSA_PHASE"           :> <<"SYSTEM_DESIGN_PHASE", "CODE_EVALUATION">> ) @@
    ( "SYSTEM_DESIGN_PHASE" :> <<"BEHAVIORAL_PHASE">> ) @@
    ( "BEHAVIORAL_PHASE"    :> <<"CROSS_AGENT_DEBATE">> ) @@
    ( "CODE_EVALUATION"     :> <<"SYSTEM_DESIGN_PHASE">> ) @@
    ( "CROSS_AGENT_DEBATE"  :> <<"FINAL_DECISION">> ) @@
    ( "FINAL_DECISION"      :> <<"REPORT_GENERATION">> ) @@
    ( "REPORT_GENERATION"   :> <<"COMPLETED">> ) @@
    ( "COMPLETED"           :> <<>> )

\* self.state_agents: phase -> roles active in it, in declaration order
state_agents ==
    ( "RESUME_ANALYSIS"     :> <<"recruiter">> ) @@
    ( "SKILL_PROFILING"     :> <<"recruiter">> ) @@
    ( "DSA_PHASE"           :> <<"dsa_interviewer", "hallucination_detector">> ) @@
    ( "SYSTEM_DESIGN_PHASE" :> <<"system_design", "hallucination_detector">> ) @@
    ( "BEHAVIORAL_PHASE"    :> <<"behavioral">> ) @@
    ( "CODE_EVALUATION"     :> <<"code_evaluator", "hallucination_detector">> ) @@
    ( "CROSS_AGENT_DEBATE"  :> <<"critic">> ) @@
    ( "FINAL_DECISION"      :> <<"final_decision">> ) @@
    ( "REPORT_GENERATION"   :> <<"final_decision">> )

\* the phases the table names, as keys or as successors
Phases ==
    DOMAIN transitions \cup
    UNION {{transitions[p][i] : i \in DOMAIN transitions[p]} : p \in DOMAIN transitions}

\* arguments a caller can pass where a phase is expected: a phase, or a value
\* the table has no entry for
PhaseArgs == Phases \cup {None}

Range(s) == {s[i] : i \in DOMAIN s}

\* keys a message payload can carry (the metadata the roles attach)
PayloadKinds == { {}, {"code"}, {"code_evaluation", "score"} }

(***************************************************************************)
(* StateMachine                                                            *)
(***************************************************************************)
\* get_next_states: self.transitions.get(current_state, [])
get_next_states(current_state) ==
    IF current_state \in DOMAIN transitions THEN transitions[current_state] ELSE <<>>

\* a lookup that answers with a marker where the map has no entry
get_active_agents_strict(state) ==
    IF state \in DOMAIN state_agents THEN state_agents[state] ELSE <<None>>

\* get_active_agents: self.state_agents.get(state, [])
get_active_agents(state) ==
    IF state \in DOMAIN state_agents THEN state_agents[state] ELSE <<>>

\* a buggy can_transition that looks the pair up the wrong way round
can_transition_swapped(from_state, to_state) ==
    from_state \in Range(IF to_state \in DOMAIN transitions
                         THEN transitions[to_state] ELSE <<>>)

\* can_transition: to_state in self.transitions.get(from_state, [])
can_transition(from_state, to_state) ==
    to_state \in Range(IF from_state \in DOMAIN transitions
                       THEN transitions[from_state] ELSE <<>>)

\* kinds of phase-entry hook a caller can register with register_handler:
\*   "keep"   - returns the context it was given
\*   "append" - appends a message to context.messages and returns the context
\*   "raise"  - raises
HandlerKinds == {"keep", "append", "raise"}
HookMsg == {"score"}

\* what a call raised: nothing, the ValueError of execute_transition with the two
\* phases its text names, or the exception of a hook
NoError == [type |-> "None", from |-> None, to |-> None]
HookError == [type |-> "HookError", from |-> None, to |-> None]
InvalidTransition(from_state, to_state) ==
    [type |-> "ValueError", from |-> from_state, to |-> to_state]

\* self.state_handlers.get(next_state)
handler_for(handlers, next_state) ==
    IF next_state \in DOMAIN handlers THEN handlers[next_state] ELSE None

\* the call of one hook on a context: the context it returns, and what it saw
run_handler(h, context) ==
    [context  |-> IF h = "append"
                  THEN [context EXCEPT !.messages = Append(@, HookMsg)]
                  ELSE context,
     raised   |-> h = "raise",
     seen     |-> context.current_state]

\* a buggy execute_transition that runs the hook before the assignment
execute_transition_hook_first(context, next_state, handlers) ==
    IF ~ can_transition(context.current_state, next_state)
    THEN [context |-> context,
          error   |-> InvalidTransition(context.current_state, next_state),
          hooks   |-> <<>>]
    ELSE LET h == handler_for(handlers, next_state)
         IN  IF h = None
             THEN [context |-> [context EXCEPT !.current_state = next_state],
                   error |-> NoError, hooks |-> <<>>]
             ELSE LET r == run_handler(h, context)
                  IN  [context |-> [r.context EXCEPT !.current_state = next_state],
                       error   |-> IF r.raised THEN HookError ELSE NoError,
                       hooks   |-> <<[phase |-> next_state, seen |-> r.seen]>>]

\* a buggy execute_transition that assigns before it validates
execute_transition_unchecked(context, next_state, handlers) ==
    LET moved == [context EXCEPT !.current_state = next_state]
        h == handler_for(handlers, next_state)
    IN  IF ~ can_transition(context.current_state, next_state)
        THEN [context |-> moved,
              error   |-> InvalidTransition(context.current_state, next_state),
              hooks   |-> <<>>]
        ELSE IF h = None
             THEN [context |-> moved, error |-> NoError, hooks |-> <<>>]
             ELSE LET r == run_handler(h, moved)
                  IN  [context |-> r.context,
                       error   |-> IF r.raised THEN HookError ELSE NoError,
                       hooks   |-> <<[phase |-> next_state, seen |-> r.seen]>>]

\* an execute_transition that puts the phase back when the hook raises
execute_transition_rollback(context, next_state, handlers) ==
    IF ~ can_transition(context.current_state, next_state)
    THEN [context |-> context,
          error   |-> InvalidTransition(context.current_state, next_state),
          hooks   |-> <<>>]
    ELSE LET moved == [context EXCEPT !.current_state = next_state]
             h == handler_for(handlers, next_state)
         IN  IF h = None
             THEN [context |-> moved, error |-> NoError, hooks |-> <<>>]
             ELSE LET r == run_handler(h, moved)
                  IN  [context |-> IF r.raised THEN context ELSE r.context,
                       error   |-> IF r.raised THEN HookError ELSE NoError,
                       hooks   |-> <<[phase |-> next_state, seen |-> r.seen]>>]

\* execute_transition: the context after the call, the exception it raised (None
\* when it returned) and the hook calls it made, in order
execute_transition(context, next_state, handlers) ==
    IF ~ can_transition(context.current_state, next_state)
    THEN [context |-> context,
          error   |-> InvalidTransition(context.current_state, next_state),
          hooks   |-> <<>>]
    ELSE LET moved == [context EXCEPT !.current_state = next_state]
             h == handler_for(handlers, next_state)
         IN  IF h = None
             THEN [context |-> moved, error |-> NoError, hooks |-> <<>>]
             ELSE LET r == run_handler(h, moved)
                  IN  [context |-> r.context,
                       error   |-> IF r.raised THEN HookError ELSE NoError,
                       hooks   |-> <<[phase |-> next_state, seen |-> r.seen]>>]

\* a buggy determine_next_state whose coding-phase branch is inverted
determine_next_state_inverted(context) ==
    LET current == context.current_state
        possible_next == get_next_states(current)
    IN  IF possible_next = <<>> THEN current
        ELSE IF current = "DSA_PHASE"
             THEN IF Len(context.messages) > 0
                     /\ "code" \in context.messages[Len(context.messages)]
                  THEN "SYSTEM_DESIGN_PHASE"
                  ELSE "CODE_EVALUATION"
             ELSE possible_next[1]

\* a buggy determine_next_state that never leaves a phase without a branch
determine_next_state_stay(context) ==
    LET current == context.current_state
        possible_next == get_next_states(current)
    IN  IF possible_next = <<>> THEN current
        ELSE IF current = "DSA_PHASE"
             THEN IF Len(context.messages) > 0
                     /\ "code" \in context.messages[Len(context.messages)]
                  THEN "CODE_EVALUATION"
                  ELSE "SYSTEM_DESIGN_PHASE"
             ELSE current

\* determine_next_state; a message is modelled by the key set of its payload
determine_next_state(context) ==
    LET current == context.current_state
        possible_next == get_next_states(current)
    IN  IF possible_next = <<>> THEN current
        ELSE IF current = "DSA_PHASE"
             THEN IF Len(context.messages) > 0
                     /\ "code" \in context.messages[Len(context.messages)]
                  THEN "CODE_EVALUATION"
                  ELSE "SYSTEM_DESIGN_PHASE"
             ELSE possible_next[1]

\* validate_flow: every consecutive pair of the sequence can_transition
validate_flow(S) ==
    \A i \in 1..(Len(S) - 1) : can_transition(S[i], S[i + 1])

(***************************************************************************)
(* MessageBus                                                              *)
(***************************************************************************)
\* limit: int = 50, the default of get_history
DefaultLimit == 50

\* seq[start:] of Python, for any integer start
PySliceFrom(seq, start) ==
    LET n == Len(seq)
        from == IF start < 0
                THEN (IF n + start < 0 THEN 0 ELSE n + start)
                ELSE (IF start > n THEN n ELSE start)
    IN  SubSeq(seq, from + 1, n)

\* the limit argument of get_history: << >> is None, <<k>> the integer k
NoLimit == << >>
LimitTruthy(limit) == limit # << >> /\ limit[1] # 0

\* a buggy get_history that keeps the first `limit` messages
get_history_head(history, sender, receiver, message_type, limit) ==
    LET by_sender == IF sender # None
                     THEN SelectSeq(history, LAMBDA m : m.sender = sender)
                     ELSE history
        by_receiver == IF receiver # None
                       THEN SelectSeq(by_sender, LAMBDA m : m.receiver = receiver)
                       ELSE by_sender
        filtered == IF message_type # None
                    THEN SelectSeq(by_receiver, LAMBDA m : m.message_type = message_type)
                    ELSE by_receiver
    IN  IF LimitTruthy(limit)
        THEN SubSeq(filtered, 1, IF limit[1] < Len(filtered) THEN limit[1] ELSE Len(filtered))
        ELSE filtered

\* a buggy get_history that ignores the receiver filter
get_history_any_receiver(history, sender, receiver, message_type, limit) ==
    LET by_sender == IF sender # None
                     THEN SelectSeq(history, LAMBDA m : m.sender = sender)
                     ELSE history
        filtered == IF message_type # None
                    THEN SelectSeq(by_sender, LAMBDA m : m.message_type = message_type)
                    ELSE by_sender
    IN  IF LimitTruthy(limit) THEN PySliceFrom(filtered, - limit[1]) ELSE filtered

\* get_history(sender, receiver, message_type, limit) on self.message_history
get_history(history, sender, receiver, message_type, limit) ==
    LET by_sender == IF sender # None
                     THEN SelectSeq(history, LAMBDA m : m.sender = sender)
                     ELSE history
        by_receiver == IF receiver # None
                       THEN SelectSeq(by_sender, LAMBDA m : m.receiver = receiver)
                       ELSE by_sender
        filtered == IF message_type # None
                    THEN SelectSeq(by_receiver, LAMBDA m : m.message_type = message_type)
                    ELSE by_receiver
    IN  IF LimitTruthy(limit) THEN PySliceFrom(filtered, - limit[1]) ELSE filtered

\* the callbacks of the entry subscribers holds for a role, << >> without one
callbacks_of(subs, agent_type) ==
    LET hits == SelectSeq(subs, LAMBDA e : e.agent_type = agent_type)
    IN  IF hits = << >> THEN << >> ELSE hits[1].callbacks

RECURSIVE all_callbacks(_)
\* the callbacks of every entry of subscribers, in the order of .values()
all_callbacks(subs) ==
    IF subs = << >> THEN << >>
    ELSE Head(subs).callbacks \o all_callbacks(Tail(subs))

\* a buggy dispatch that hands every message to every role's subscribers
dispatch_to_all(message, subs, bcasts) == bcasts \o all_callbacks(subs)

\* the callbacks the loops of publish iterate over, in iteration order
dispatch(message, subs, bcasts) ==
    bcasts \o (IF message.receiver # None
               THEN callbacks_of(subs, message.receiver)
               ELSE all_callbacks(subs))

\* callback(message) raises before it returns a coroutine
RaisesOnCall(callback) == callback.kind = "raises_on_call"

\* publish raises out of its loops: calling one of the callbacks raises
publish_raises(message, subs, bcasts) ==
    \E i \in DOMAIN dispatch(message, subs, bcasts) :
        RaisesOnCall(dispatch(message, subs, bcasts)[i])

\* the callbacks asyncio.create_task was reached for: the loops stop at the
\* first callback whose call raises
dispatched(message, subs, bcasts) ==
    LET cbs == dispatch(message, subs, bcasts)
        bad == {i \in DOMAIN cbs : RaisesOnCall(cbs[i])}
    IN  IF bad = {} THEN cbs
        ELSE SubSeq(cbs, 1, (CHOOSE i \in bad : \A j \in bad : i <= j) - 1)

\* Queue.put_nowait wakes the oldest suspended get: it leaves _getters and is
\* scheduled to resume
wake_getters(waiting) == IF waiting = << >> THEN << >> ELSE Tail(waiting)
wake_resuming(waiting, woken) ==
    IF waiting = << >> THEN woken ELSE Append(woken, Head(waiting))

\* a buggy publish that puts the message at the front of the queue
PublishOn_front(h, q, t, message) ==
    LET cbs == dispatched(message, subscribers, broadcast_callbacks)
    IN  /\ message_history' = Append(h, message)
        /\ message_queue' = <<message>> \o q
        /\ getters' = wake_getters(getters)
        /\ resuming' = wake_resuming(getters, resuming)
        /\ tasks' = t \o [i \in 1..Len(cbs) |-> [callback |-> cbs[i], message |-> message]]
        /\ UNCHANGED <<subscribers, broadcast_callbacks>>

\* publish(message) on a bus whose history, queue and tasks are h, q and t
PublishOn(h, q, t, message) ==
    LET cbs == dispatched(message, subscribers, broadcast_callbacks)
    IN  /\ message_history' = Append(h, message)
        /\ message_queue' = Append(q, message)
        /\ getters' = wake_getters(getters)
        /\ resuming' = wake_resuming(getters, resuming)
        /\ tasks' = t \o [i \in 1..Len(cbs) |-> [callback |-> cbs[i], message |-> message]]
        /\ UNCHANGED <<subscribers, broadcast_callbacks>>

\* await message_bus.publish(message); the queue is unbounded, so put does not
\* suspend and the whole call runs without yielding to the event loop
Publish(message) == PublishOn(message_history, message_queue, tasks, message)

(***************************************************************************)
(* Initial state: a StateMachine() and a fresh InterviewContext            *)
(***************************************************************************)
\* InterviewContext(...) with the defaults of models/schemas.py
NewInterviewContext == [current_state |-> "INIT", messages |-> <<>>]

Idle == [op |-> "none"]

\* no step request of the session is in flight
NoReq == [op |-> "idle", stage |-> 0]

Init ==
    /\ ctx = NewInterviewContext
    /\ state_handlers = << >>
    /\ sm_ret = Idle
    /\ query = Idle
    /\ flow = << >>
    /\ jumps = 0
    /\ message_history = << >>
    /\ message_queue = << >>
    /\ subscribers = << >>
    /\ broadcast_callbacks = << >>
    /\ tasks = << >>
    /\ getters = << >>
    /\ resuming = << >>
    /\ received = << >>
    /\ delivered = << >>
    /\ bus_ret = Idle
    /\ now = 0
    /\ active_sessions = << >>
    /\ req = [s \in 1..MaxPeers |-> NoReq]
    /\ http_ret = Idle

(***************************************************************************)
(* Side-effect-free queries of the StateMachine                            *)
(***************************************************************************)
CanTransitionCall(a, b) ==
    /\ query' = [op |-> "can_transition", from |-> a, to |-> b,
                 result |-> can_transition(a, b), raised |-> FALSE]
    /\ UNCHANGED <<smVars, flowVars, busVars, now, wfVars>>

GetNextStatesCall(a) ==
    /\ query' = [op |-> "get_next_states", from |-> a,
                 result |-> get_next_states(a), raised |-> FALSE]
    /\ UNCHANGED <<smVars, flowVars, busVars, now, wfVars>>

GetActiveAgentsCall(a) ==
    /\ query' = [op |-> "get_active_agents", from |-> a,
                 result |-> get_active_agents(a), raised |-> FALSE]
    /\ UNCHANGED <<smVars, flowVars, busVars, now, wfVars>>

\* the contexts a caller can hand to determine_next_state: a phase of the table
\* and a log of at most MaxMsgs messages
Contexts ==
    {[current_state |-> p, messages |-> m] :
        p \in Phases,
        m \in UNION {[1..n -> PayloadKinds] : n \in 0..MaxMsgs}}

\* determine_next_state on a context of the caller's, which it only reads
DetermineNextStateCall(c) ==
    /\ query' = [op |-> "determine_next_state", context |-> c,
                 result |-> determine_next_state(c), raised |-> FALSE]
    /\ UNCHANGED <<smVars, flowVars, busVars, now, wfVars>>

\* the names StateMachine.__init__ looks up in the enumeration: the keys and
\* successors of self.transitions and the keys of self.state_agents
NamesUsed == Phases \cup DOMAIN state_agents

\* InterviewState.<name>: AttributeError for a name that is not a member
Missing == NamesUsed \ InterviewState

\* StateMachine(): __init__ evaluates every InterviewState.<name> of the two
\* tables and raises at the first that is not a member.  The queries above are
\* explored on the tables as they are written.
ConstructCall ==
    /\ query' = [op |-> "StateMachine", result |-> Missing, raised |-> Missing # {}]
    /\ UNCHANGED <<smVars, flowVars, busVars, now, wfVars>>

NextTable ==
    \/ \E a \in PhaseArgs, b \in PhaseArgs : CanTransitionCall(a, b)
    \/ \E a \in PhaseArgs : GetNextStatesCall(a)
    \/ \E a \in PhaseArgs : GetActiveAgentsCall(a)
    \/ \E c \in Contexts : DetermineNextStateCall(c)
    \/ ConstructCall

SpecTable == Init /\ [][NextTable]_vars

(***************************************************************************)
(* The StateMachine driving one context                                    *)
(***************************************************************************)
\* phases a caller registers phase-entry hooks for
HookPhases == {"SKILL_PROFILING", "DSA_PHASE"}

\* a new InterviewContext replaces the one in use
NewContext ==
    /\ ctx' = NewInterviewContext
    /\ sm_ret' = Idle
    /\ UNCHANGED <<state_handlers, tableVars, flowVars, busVars, now, wfVars>>

\* register_handler(state, handler)
RegisterHandler(state, handler) ==
    /\ state_handlers' = (state :> handler) @@ state_handlers
    /\ sm_ret' = Idle
    /\ UNCHANGED <<ctx, tableVars, flowVars, busVars, now, wfVars>>

\* context.messages.append(msg), as _publish_agent_message does
AppendMessage(payload) ==
    /\ Len(ctx.messages) < MaxMsgs
    /\ ctx' = [ctx EXCEPT !.messages = Append(@, payload)]
    /\ sm_ret' = Idle
    /\ UNCHANGED <<state_handlers, tableVars, flowVars, busVars, now, wfVars>>

\* await state_machine.execute_transition(context, next_state)
ExecuteTransition(next_state) ==
    LET r == execute_transition(ctx, next_state, state_handlers)
    IN  /\ Len(r.context.messages) <= MaxMsgs
        /\ ctx' = r.context
        /\ sm_ret' = [op |-> "execute_transition", target |-> next_state,
                      before |-> ctx, error |-> r.error, hooks |-> r.hooks]
        /\ UNCHANGED <<state_handlers, tableVars, flowVars, busVars, now, wfVars>>

\* state_machine.determine_next_state(context)
DetermineNextState ==
    /\ sm_ret' = [op |-> "determine_next_state",
                  result |-> determine_next_state(ctx)]
    /\ UNCHANGED <<ctx, state_handlers, tableVars, flowVars, busVars, now, wfVars>>

NextSM ==
    \/ NewContext
    \/ \E p \in HookPhases, h \in HandlerKinds : RegisterHandler(p, h)
    \/ \E k \in PayloadKinds : AppendMessage(k)
    \/ \E p \in Phases : ExecuteTransition(p)
    \/ DetermineNextState

SpecSM == Init /\ [][NextSM]_vars

(***************************************************************************)
(* A caller that drives one context to the end: while the context is not   *)
(* COMPLETED it calls execute_transition(context,                          *)
(* determine_next_state(context)); messages are appended to the log in     *)
(* between.  The caller notes the phases it asked for in flow.             *)
(***************************************************************************)
DriveStep ==
    LET next_state == determine_next_state(ctx)
        r == execute_transition(ctx, next_state, state_handlers)
    IN  /\ ctx.current_state # "COMPLETED"
        /\ Len(flow) < MaxFlow
        /\ ctx' = r.context
        /\ sm_ret' = [op |-> "execute_transition", target |-> next_state,
                      before |-> ctx, error |-> r.error, hooks |-> r.hooks]
        /\ flow' = Append(flow, next_state)
        /\ UNCHANGED <<state_handlers, tableVars, jumps, busVars, now, wfVars>>

NextDrive ==
    \/ DriveStep
    \/ \E k \in PayloadKinds : AppendMessage(k)

\* the caller's loop goes on as long as it can
SpecDrive == Init /\ [][NextDrive]_vars /\ WF_vars(DriveStep)

(***************************************************************************)
(* Flows handed to validate_flow                                           *)
(***************************************************************************)
\* the caller starts a flow at the initial phase
StartFlow ==
    /\ flow = << >>
    /\ flow' = <<"INIT">>
    /\ jumps' = 0
    /\ query' = Idle
    /\ UNCHANGED <<smVars, busVars, now, wfVars>>

\* the caller extends the flow by a successor of its last phase
ExtendFlow(p) ==
    /\ flow # << >>
    /\ Len(flow) < MaxFlow
    /\ p \in Range(get_next_states(flow[Len(flow)]))
    /\ flow' = Append(flow, p)
    /\ query' = Idle
    /\ UNCHANGED <<smVars, jumps, busVars, now, wfVars>>

\* the caller extends the flow by a phase that is no successor of its last phase
JumpFlow(p) ==
    /\ flow # << >>
    /\ Len(flow) < MaxFlow
    /\ jumps < MaxJumps
    /\ p \notin Range(get_next_states(flow[Len(flow)]))
    /\ flow' = Append(flow, p)
    /\ jumps' = jumps + 1
    /\ query' = Idle
    /\ UNCHANGED <<smVars, busVars, now, wfVars>>

\* a flow of one arbitrary phase
SingleFlow(p) ==
    /\ flow = << >>
    /\ flow' = <<p>>
    /\ jumps' = 0
    /\ query' = Idle
    /\ UNCHANGED <<smVars, busVars, now, wfVars>>

ValidateFlowCall ==
    /\ query' = [op |-> "validate_flow", arg |-> flow,
                 result |-> validate_flow(flow), raised |-> FALSE]
    /\ UNCHANGED <<smVars, flowVars, busVars, now, wfVars>>

NextFlow ==
    \/ StartFlow
    \/ \E p \in Phases : SingleFlow(p)
    \/ \E p \in Phases : ExtendFlow(p)
    \/ \E p \in Phases : JumpFlow(p)
    \/ ValidateFlowCall

SpecFlow == Init /\ [][NextFlow]_vars

(***************************************************************************)
(* Queries of the bus history                                              *)
(***************************************************************************)
\* messages a caller of the bus publishes: three roles with the confidences
\* 0.9, 0.5 and 0.2 (in hundredths), one of them addressed to a role
BusTemplates ==
    { [sender |-> "recruiter", receiver |-> None, message_type |-> "evaluation",
       payload |-> {}, confidence |-> 90],
      [sender |-> "dsa_interviewer", receiver |-> "code_evaluator",
       message_type |-> "question", payload |-> {"code"}, confidence |-> 50],
      [sender |-> "critic", receiver |-> None, message_type |-> "evaluation",
       payload |-> {}, confidence |-> 20],
      [sender |-> "dsa_interviewer", receiver |-> None, message_type |-> "evaluation",
       payload |-> {}, confidence |-> 50] }

FillerTemplate ==
    [sender |-> "recruiter", receiver |-> None, message_type |-> "evaluation",
     payload |-> {}, confidence |-> 90]

\* a question one role addresses to another
OddTemplate ==
    [sender |-> "dsa_interviewer", receiver |-> "code_evaluator",
     message_type |-> "question", payload |-> {"code"}, confidence |-> 50]

\* the AgentMessage a caller builds from a template at the current clock reading
Stamp(t) ==
    [id |-> <<t.sender, now>>, sender |-> t.sender, receiver |-> t.receiver,
     message_type |-> t.message_type, payload |-> t.payload,
     confidence |-> t.confidence]

SenderArgs == {None, "dsa_interviewer"}
ReceiverArgs == {None, "code_evaluator"}
TypeArgs == {None, "evaluation"}
LimitArgs == {NoLimit} \cup {<<k>> : k \in 0..MaxLimit}

\* a caller builds a message and publishes it
PublishCall(t) ==
    /\ Publish(Stamp(t))
    /\ now' = now + 1
    /\ bus_ret' = [op |-> "publish", message |-> Stamp(t),
                   raised |-> publish_raises(Stamp(t), subscribers, broadcast_callbacks)]
    /\ UNCHANGED <<smVars, tableVars, flowVars, wfVars, received, delivered>>

\* message_bus.get_history(sender, receiver, message_type, limit)
GetHistoryCall(sender, receiver, message_type, limit) ==
    /\ bus_ret' = [op |-> "get_history", sender |-> sender, receiver |-> receiver,
                   message_type |-> message_type, limit |-> limit,
                   limit_given |-> TRUE,
                   result |-> get_history(message_history, sender, receiver,
                                          message_type, limit)]
    /\ UNCHANGED <<smVars, tableVars, flowVars, wfVars, now,
                   message_history, message_queue, subscribers,
                   broadcast_callbacks, tasks, getters, resuming, received,
                   delivered>>

\* message_bus.get_history(sender, receiver, message_type): limit left out
GetHistoryDefaultCall(sender, receiver, message_type) ==
    /\ bus_ret' = [op |-> "get_history", sender |-> sender, receiver |-> receiver,
                   message_type |-> message_type, limit |-> <<DefaultLimit>>,
                   limit_given |-> FALSE,
                   result |-> get_history(message_history, sender, receiver,
                                          message_type, <<DefaultLimit>>)]
    /\ UNCHANGED <<smVars, tableVars, flowVars, wfVars, now,
                   message_history, message_queue, subscribers,
                   broadcast_callbacks, tasks, getters, resuming, received,
                   delivered>>

\* a buggy clear_history that also drops the pending items of the queue
ClearHistory_and_queue ==
    /\ message_history' = << >>
    /\ message_queue' = << >>
    /\ bus_ret' = [op |-> "clear_history"]
    /\ UNCHANGED <<smVars, tableVars, flowVars, wfVars, now,
                   subscribers, broadcast_callbacks, tasks,
                   getters, resuming, received, delivered>>

\* message_bus.clear_history()
ClearHistory ==
    /\ message_history' = << >>
    /\ bus_ret' = [op |-> "clear_history"]
    /\ UNCHANGED <<smVars, tableVars, flowVars, wfVars, now,
                   message_queue, subscribers, broadcast_callbacks, tasks,
                   getters, resuming, received, delivered>>

NextHistory ==
    \/ \E t \in BusTemplates : now < MaxPublished /\ PublishCall(t)
    \/ \E s \in SenderArgs, r \in ReceiverArgs, k \in TypeArgs, l \in LimitArgs :
          GetHistoryCall(s, r, k, l)
    \/ \E s \in SenderArgs, r \in ReceiverArgs, k \in TypeArgs :
          GetHistoryDefaultCall(s, r, k)
    \/ ClearHistory

SpecHistory == Init /\ [][NextHistory]_vars

\* the bus of a long-running process: many publishes, history read with the
\* limit left out
\* the filters the long history is read with: none, and each filter alone
LongFilters ==
    { <<None, None, None>>, <<"dsa_interviewer", None, None>>,
      <<None, "code_evaluator", None>>, <<None, None, "evaluation">> }

Addressed(history) == SelectSeq(history, LAMBDA m : m.receiver # None)

NextLong ==
    \/ now < MaxLong /\ PublishCall(FillerTemplate)
    \/ now < MaxLong /\ Len(Addressed(message_history)) < MaxOdd /\ PublishCall(OddTemplate)
    \/ \E f \in LongFilters : GetHistoryDefaultCall(f[1], f[2], f[3])

SpecLong == Init /\ [][NextLong]_vars

(***************************************************************************)
(* The MessageBus with subscribers: registration, publish, broadcast and   *)
(* the event loop running the callback tasks                               *)
(***************************************************************************)
\* coroutine functions a caller registers: one that completes and one that
\* raises while it runs
CoroutineCallbacks ==
    { [name |-> "ws", kind |-> "ok"], [name |-> "audit", kind |-> "fails"] }

\* a callable whose call raises (wrong arity, a plain function that raises)
FaultyCallback == [name |-> "bad", kind |-> "raises_on_call"]

AnyCallbacks == CoroutineCallbacks \cup {FaultyCallback}

SubRoles == {"code_evaluator", "critic"}

\* the messages published while dispatch is explored: one without receiver,
\* one addressed to a role
DispatchTemplates == {FillerTemplate, OddTemplate}

Registrations == Len(all_callbacks(subscribers)) + Len(broadcast_callbacks)

busRest == <<smVars, tableVars, flowVars, wfVars>>

\* message_bus.subscribe(agent_type, callback)
SubscribeCall(agent_type, callback) ==
    /\ Registrations < MaxSubs
    /\ subscribers' =
          IF \E i \in DOMAIN subscribers : subscribers[i].agent_type = agent_type
          THEN [i \in DOMAIN subscribers |->
                   IF subscribers[i].agent_type = agent_type
                   THEN [subscribers[i] EXCEPT !.callbacks = Append(@, callback)]
                   ELSE subscribers[i]]
          ELSE Append(subscribers, [agent_type |-> agent_type, callbacks |-> <<callback>>])
    /\ bus_ret' = [op |-> "subscribe", agent_type |-> agent_type, callback |-> callback]
    /\ UNCHANGED <<busRest, now, message_history, message_queue, broadcast_callbacks,
                   tasks, getters, resuming, received, delivered>>

\* a subscribe_broadcast that hands the history to the new callback
SubscribeBroadcastCall_replay(callback) ==
    /\ Registrations < MaxSubs
    /\ broadcast_callbacks' = Append(broadcast_callbacks, callback)
    /\ tasks' = tasks \o [i \in 1..Len(message_history) |->
                             [callback |-> callback, message |-> message_history[i]]]
    /\ bus_ret' = [op |-> "subscribe_broadcast", callback |-> callback]
    /\ UNCHANGED <<busRest, now, message_history, message_queue, subscribers,
                   getters, resuming, received, delivered>>

\* message_bus.subscribe_broadcast(callback)
SubscribeBroadcastCall(callback) ==
    /\ Registrations < MaxSubs
    /\ broadcast_callbacks' = Append(broadcast_callbacks, callback)
    /\ bus_ret' = [op |-> "subscribe_broadcast", callback |-> callback]
    /\ UNCHANGED <<busRest, now, message_history, message_queue, subscribers,
                   tasks, getters, resuming, received, delivered>>

\* a caller builds a message and publishes it, while the bus has room
BusPublishCall(t) ==
    /\ Len(message_queue) < MaxBusPublished
    /\ PublishCall(t)

\* every reference to the message object with identifier id now reads as m
Rewrite(seq, id, m) ==
    [i \in DOMAIN seq |-> IF seq[i].id = id THEN m ELSE seq[i]]
RewriteTasks(seq, id, m) ==
    [i \in DOMAIN seq |->
        IF seq[i].message.id = id THEN [seq[i] EXCEPT !.message = m] ELSE seq[i]]

\* message_bus.broadcast(message) with a message the caller has just built
BroadcastNewCall(t) ==
    LET message == [Stamp(t) EXCEPT !.receiver = None]
    IN  /\ Len(message_queue) < MaxBusPublished
        /\ Publish(message)
        /\ now' = now + 1
        /\ bus_ret' = [op |-> "broadcast", message |-> message,
                       raised |-> publish_raises(message, subscribers, broadcast_callbacks)]
        /\ UNCHANGED <<busRest, received, delivered>>

\* message_bus.broadcast(message) with the message object published as the
\* i-th entry of the history: message.receiver = None writes to that object,
\* which the history, the queue and the pending tasks refer to
BroadcastPublishedCall(i) ==
    LET old == message_history[i]
        message == [old EXCEPT !.receiver = None]
    IN  /\ Len(message_queue) < MaxBusPublished
        /\ PublishOn(Rewrite(message_history, old.id, message),
                     Rewrite(message_queue, old.id, message),
                     RewriteTasks(tasks, old.id, message), message)
        /\ bus_ret' = [op |-> "broadcast", message |-> message,
                       raised |-> publish_raises(message, subscribers, broadcast_callbacks)]
        /\ UNCHANGED <<busRest, now, received, delivered>>

\* a buggy event loop that drops the oldest callback task without running it
RunTask_drop ==
    /\ tasks # << >>
    /\ tasks' = Tail(tasks)
    /\ bus_ret' = [op |-> "run_task"]
    /\ UNCHANGED <<smVars, tableVars, flowVars, wfVars, now, message_history,
                   message_queue, subscribers, broadcast_callbacks, getters,
                   resuming, received, delivered>>

\* the event loop runs the oldest callback task: the callback is invoked with
\* the message; what it raises stays in its task
RunTask ==
    /\ tasks # << >>
    /\ delivered' = Append(delivered,
                           [callback |-> Head(tasks).callback,
                            message |-> Head(tasks).message,
                            failed |-> Head(tasks).callback.kind = "fails"])
    /\ tasks' = Tail(tasks)
    /\ bus_ret' = [op |-> "run_task"]
    /\ UNCHANGED <<busRest, now, message_history, message_queue, subscribers,
                   broadcast_callbacks, getters, resuming, received>>

\* the bus with coroutine functions as callbacks
NextBus ==
    \/ \E r \in SubRoles, c \in CoroutineCallbacks : SubscribeCall(r, c)
    \/ \E c \in CoroutineCallbacks : SubscribeBroadcastCall(c)
    \/ \E t \in DispatchTemplates : BusPublishCall(t)
    \/ \E t \in DispatchTemplates : BroadcastNewCall(t)
    \/ \E i \in DOMAIN message_history : BroadcastPublishedCall(i)
    \/ RunTask
    \/ ClearHistory

SpecBus == Init /\ [][NextBus]_vars

\* the delivery path of the bus: registration, publish and the event loop
NextDeliver ==
    \/ \E r \in SubRoles, c \in CoroutineCallbacks : SubscribeCall(r, c)
    \/ \E c \in CoroutineCallbacks : SubscribeBroadcastCall(c)
    \/ \E t \in DispatchTemplates : BusPublishCall(t)
    \/ RunTask

\* the event loop is fair to its ready tasks: a callback task that stays
\* pending is run
SpecBusFair == Init /\ [][NextDeliver]_vars /\ WF_vars(RunTask)

\* the bus with any callable as callback
NextBusAny ==
    \/ \E r \in SubRoles, c \in AnyCallbacks : SubscribeCall(r, c)
    \/ \E c \in AnyCallbacks : SubscribeBroadcastCall(c)
    \/ \E t \in DispatchTemplates : BusPublishCall(t)
    \/ \E t \in DispatchTemplates : BroadcastNewCall(t)
    \/ \E i \in DOMAIN message_history : BroadcastPublishedCall(i)
    \/ RunTask
    \/ ClearHistory

SpecBusAny == Init /\ [][NextBusAny]_vars

(***************************************************************************)
(* The queue of the MessageBus: get_message against publish                *)
(***************************************************************************)
\* a buggy Queue.get_nowait that takes the newest item
queue_get_newest(q) == [item |-> q[Len(q)], rest |-> SubSeq(q, 1, Len(q) - 1)]

\* Queue.get_nowait: the oldest item leaves the queue
queue_get(q) == [item |-> Head(q), rest |-> Tail(q)]

Callers == 1..MaxCallers

\* the timeout argument of get_message: << >> is None, <<k>> the number k
NoTimeout == << >>
TimeoutArgs == {NoTimeout, <<0>>, <<1>>}

\* `if timeout:` of get_message: the call goes through asyncio.wait_for
TimerSet(timeout) == timeout # << >> /\ timeout[1] # 0

\* the get_message calls that have not returned
Outstanding == getters \o resuming

\* what a get_message call returns to its caller
Returned(g, suspended, message) ==
    [caller |-> g.caller, timeout |-> g.timeout, issued_at |-> g.issued_at,
     suspended |-> suspended, timed_out |-> FALSE,
     result |-> <<message>>]
TimedOut(g) ==
    [caller |-> g.caller, timeout |-> g.timeout, issued_at |-> g.issued_at,
     suspended |-> TRUE, timed_out |-> TRUE,
     result |-> << >>]

queueRest == <<busRest, subscribers, broadcast_callbacks, tasks, delivered>>

\* a caller builds a message and publishes it, while the queue is explored
QueuePublishCall(t) ==
    /\ now < MaxQueued
    /\ PublishCall(t)

\* await message_bus.get_message(timeout), up to the point where Queue.get
\* returns or suspends: with an item in the queue it returns at once
GetMessageCall(caller, timeout) ==
    LET g == [caller |-> caller, timeout |-> timeout, issued_at |-> now, waited |-> 0]
    IN  /\ \A i \in DOMAIN Outstanding : Outstanding[i].caller # caller
        /\ Len(received) + Len(Outstanding) < MaxGets
        /\ IF message_queue # << >>
           THEN /\ message_queue' = queue_get(message_queue).rest
                /\ received' = Append(received,
                                      Returned(g, FALSE, queue_get(message_queue).item))
                /\ UNCHANGED getters
           ELSE /\ getters' = Append(getters, g)
                /\ UNCHANGED <<message_queue, received>>
        /\ bus_ret' = [op |-> "get_message"]
        /\ UNCHANGED <<queueRest, now, message_history, resuming>>

\* the event loop resumes the get call woken first: `while self.empty()` of
\* Queue.get sends it back to wait when another call has taken the item
GetMessageResume ==
    /\ resuming # << >>
    /\ resuming' = Tail(resuming)
    /\ IF message_queue # << >>
       THEN /\ message_queue' = queue_get(message_queue).rest
            /\ received' = Append(received,
                                  Returned(Head(resuming), TRUE,
                                           queue_get(message_queue).item))
            /\ UNCHANGED getters
       ELSE /\ getters' = Append(getters, Head(resuming))
            /\ UNCHANGED <<message_queue, received>>
    /\ bus_ret' = [op |-> "resume_get"]
    /\ UNCHANGED <<queueRest, now, message_history>>

\* the calls of seq whose wait_for timer fires when one more unit has passed
Expiring(seq) ==
    SelectSeq(seq, LAMBDA g : TimerSet(g.timeout) /\ g.waited + 1 >= g.timeout[1])
Surviving(seq) ==
    LET rest == SelectSeq(seq, LAMBDA g : ~ (TimerSet(g.timeout) /\ g.waited + 1 >= g.timeout[1]))
    IN  [i \in DOMAIN rest |-> [rest[i] EXCEPT !.waited = @ + 1]]
AsTimedOut(seq) == [i \in DOMAIN seq |-> TimedOut(seq[i])]

\* one unit of time passes with calls outstanding: wait_for cancels the calls
\* whose timeout has elapsed and they raise TimeoutError; a cancelled call that
\* a put had already woken passes the wakeup on (except-branch of Queue.get)
TimePasses ==
    LET woken_lost == Expiring(resuming) # << >> /\ message_queue # << >>
        waiting == Surviving(getters)
    IN  /\ Outstanding # << >>
        /\ \A i \in DOMAIN Outstanding : Outstanding[i].waited < MaxWait
        /\ received' = received \o AsTimedOut(Expiring(getters))
                                \o AsTimedOut(Expiring(resuming))
        /\ getters' = IF woken_lost THEN wake_getters(waiting) ELSE waiting
        /\ resuming' = IF woken_lost
                       THEN wake_resuming(waiting, Surviving(resuming))
                       ELSE Surviving(resuming)
        /\ bus_ret' = [op |-> "time_passes"]
        /\ UNCHANGED <<queueRest, now, message_history, message_queue>>

NextQueue ==
    \/ \E t \in DispatchTemplates : QueuePublishCall(t)
    \/ \E c \in Callers, t \in TimeoutArgs : GetMessageCall(c, t)
    \/ GetMessageResume
    \/ TimePasses
    \/ ClearHistory

SpecQueue == Init /\ [][NextQueue]_vars

(***************************************************************************)
(* The step handlers of main.py.  A handler runs without yielding to the   *)
(* event loop until it awaits the model call of a role (BaseAgent.call_llm *)
(* is the only await that suspends: MessageBus.publish puts on an          *)
(* unbounded queue and VectorStore.add has no await inside), so a handler  *)
(* is one action up to that await and one action from its return on.       *)
(***************************************************************************)
busState == <<message_history, message_queue, subscribers, broadcast_callbacks, tasks,
              getters, resuming>>

\* what the model call of a role can come to: text that parses as the JSON the
\* role asked for, text that does not, or an exception (transport error, no key)
Outcomes == {"parsed", "unparsed", "raised"}

\* confidence values (in hundredths) a role copies from the model's JSON
ModelConfidences == {78, 150}

\* a context built without the current_state argument: the schema default INIT
NewSession_default(has_resume) ==
    [current_state |-> "INIT", messages |-> << >>,
     has_resume |-> has_resume, skill_profile |-> FALSE,
     current_question |-> FALSE, current_score |-> {}, candidate_answers |-> << >>]

\* InterviewContext(session_id, candidate_name, current_state=RESUME_ANALYSIS,
\* candidate_resume=resume) of start_interview
NewSession(has_resume) ==
    [current_state |-> "RESUME_ANALYSIS", messages |-> << >>,
     has_resume |-> has_resume, skill_profile |-> FALSE,
     current_question |-> FALSE, current_score |-> {}, candidate_answers |-> << >>]

\* a role that builds a fresh score map out of the categories it has just scored
set_score_fresh(current_score, keys) == keys

\* context.current_score[key] = value for each of the keys: the categories that
\* have a score (values are left out, a key is there or it is not)
set_score(current_score, keys) == current_score \cup keys

Sessions == DOMAIN active_sessions

\* _get_session(session_id) finds the session and no other step of it is in flight
Ready(s) == s \in Sessions /\ req[s] = NoReq

Waiting(s, op, stage) == s \in Sessions /\ req[s].op = op /\ req[s].stage = stage

\* the session has room in its log for n more messages
HasRoom(s, n) == Len(active_sessions[s].messages) + n <= MaxLog

\* agent.create_message(receiver=None, ...)
AgentMsg(sender, message_type, payload, confidence) ==
    [id |-> <<sender, now>>, sender |-> sender, receiver |-> None,
     message_type |-> message_type, payload |-> payload, confidence |-> confidence]

\* a handler that appends to the session's log and does not publish
PublishAgentMessage_unpublished(s, c, sender, message_type, payload, confidence) ==
    LET msg == AgentMsg(sender, message_type, payload, confidence)
    IN  /\ active_sessions' =
              [active_sessions EXCEPT ![s] = [c EXCEPT !.messages = Append(@, msg)]]
        /\ UNCHANGED busState

\* _publish_agent_message on the context c of session s
PublishAgentMessage(s, c, sender, message_type, payload, confidence) ==
    LET msg == AgentMsg(sender, message_type, payload, confidence)
    IN  /\ active_sessions' =
              [active_sessions EXCEPT ![s] = [c EXCEPT !.messages = Append(@, msg)]]
        /\ Publish(msg)

\* the handler moves the session's context on without publishing
SetContext(s, c) ==
    /\ active_sessions' = [active_sessions EXCEPT ![s] = c]
    /\ UNCHANGED busState

SetReq(s, op, stage) == req' = [req EXCEPT ![s] = [op |-> op, stage |-> stage]]

\* the request of an answer step waits for a role: answer is the argument of the
\* request, judging the answer the role has put into its prompt
SetReqAnswer(s, op, stage, answer, judging) ==
    req' = [req EXCEPT ![s] = [op |-> op, stage |-> stage,
                               answer |-> answer, judging |-> judging]]

\* the texts a candidate submits as answers
AnswerTexts == {"a1", "a2"}

\* a role that judges the first answer of the list
judged_answer_first(candidate_answers) ==
    IF candidate_answers # << >> THEN candidate_answers[1] ELSE ""

\* context.candidate_answers[-1] if context.candidate_answers else ""
judged_answer(candidate_answers) ==
    IF candidate_answers # << >> THEN candidate_answers[Len(candidate_answers)] ELSE ""

EndReq(s) == req' = [req EXCEPT ![s] = NoReq]

wfFrame ==
    UNCHANGED <<smVars, tableVars, flowVars, received, delivered, bus_ret, now, http_ret>>

\* the clock advances
Tick ==
    /\ now < MaxClock
    /\ now' = now + 1
    /\ UNCHANGED <<smVars, tableVars, flowVars, busVars, wfVars>>

\* POST /interview/start, up to the model call of the recruiter; without a
\* resume the recruiter answers at once and the handler runs to its end
StartInterviewUpTo(has_resume, limit) ==
    LET sid == Cardinality(Sessions) + 1
        c == NewSession(has_resume)
        msg == AgentMsg("recruiter", "evaluation", {}, 0)
    IN  /\ sid <= limit
        /\ IF has_resume
           THEN /\ active_sessions' = (sid :> c) @@ active_sessions
                /\ SetReq(sid, "start", 1)
                /\ UNCHANGED busState
           ELSE /\ active_sessions' =
                      (sid :> [c EXCEPT !.messages = <<msg>>]) @@ active_sessions
                /\ Publish(msg)
                /\ UNCHANGED req
        /\ wfFrame

StartInterview(has_resume) == StartInterviewUpTo(has_resume, MaxSessions)

\* start_interview from the return of analyze_resume's model call on
StartInterviewReturn(s, outcome) ==
    LET c == active_sessions[s]
    IN  /\ Waiting(s, "start", 1)
        /\ EndReq(s)
        /\ CASE outcome = "raised" -> UNCHANGED <<active_sessions, busState>>
             [] outcome = "parsed" ->
                  PublishAgentMessage(s, [c EXCEPT !.skill_profile = TRUE],
                      "recruiter", "evaluation", {"skill_profile", "difficulty"}, 85)
             [] outcome = "unparsed" ->
                  PublishAgentMessage(s, c,
                      "recruiter", "evaluation", {"raw_response", "error"}, 50)
        /\ wfFrame

\* a handler that sets the phase, clears the question and asks a role for one
StartPhase(s, op, phase) ==
    /\ Ready(s)
    /\ HasRoom(s, 1)
    /\ SetContext(s, [active_sessions[s] EXCEPT !.current_state = phase,
                                                !.current_question = FALSE])
    /\ SetReq(s, op, 1)
    /\ wfFrame

\* the same handler from the return of the role's model call on: the role sets
\* the question it parsed, or its fallback question
StartPhaseReturn(s, op, outcome, sender, payload) ==
    LET c == active_sessions[s]
    IN  /\ Waiting(s, op, 1)
        /\ EndReq(s)
        /\ IF outcome = "raised"
           THEN UNCHANGED <<active_sessions, busState>>
           ELSE PublishAgentMessage(s, [c EXCEPT !.current_question = TRUE],
                    sender, "question", payload,
                    IF outcome = "parsed" THEN 90 ELSE 70)
        /\ wfFrame

\* POST /interview/{id}/dsa/start
StartDsa(s) == StartPhase(s, "dsa_start", "DSA_PHASE")
StartDsaReturn(s, outcome) ==
    StartPhaseReturn(s, "dsa_start", outcome, "dsa_interviewer", {"question", "phase"})

\* POST /interview/{id}/system-design/start
StartSystemDesign(s) == StartPhase(s, "sd_start", "SYSTEM_DESIGN_PHASE")
StartSystemDesignReturn(s, outcome) ==
    StartPhaseReturn(s, "sd_start", outcome, "system_design", {"question"})

\* POST /interview/{id}/behavioral/start
StartBehavioral(s) == StartPhase(s, "beh_start", "BEHAVIORAL_PHASE")
StartBehavioralReturn(s, outcome) ==
    StartPhaseReturn(s, "beh_start", outcome, "behavioral", {"question"})

\* POST /interview/{id}/dsa/answer, up to the model call of evaluate_answer;
\* without a current question evaluate_answer raises before the call
SubmitDsaAnswer(s, answer) ==
    LET c == [active_sessions[s] EXCEPT !.candidate_answers = Append(@, answer)]
    IN  /\ Ready(s)
        /\ HasRoom(s, 2)
        /\ Len(active_sessions[s].candidate_answers) < MaxAnswers
        /\ SetContext(s, c)
        /\ IF c.current_question
           THEN SetReqAnswer(s, "dsa_answer", 1, answer, judged_answer(c.candidate_answers))
           ELSE UNCHANGED req
        /\ wfFrame

\* submit_dsa_answer from the return of evaluate_answer's model call up to the
\* model call of the code evaluator; store_ok: vector_store.add returns
SubmitDsaAnswerReturn(s, outcome, store_ok) ==
    LET c == active_sessions[s]
    IN  /\ Waiting(s, "dsa_answer", 1)
        /\ CASE outcome = "raised" ->
                  /\ UNCHANGED <<active_sessions, busState>>
                  /\ EndReq(s)
             [] outcome = "parsed" ->
                  /\ PublishAgentMessage(s, [c EXCEPT !.current_score = set_score(@, {"dsa"})],
                         "dsa_interviewer", "evaluation", {"evaluation", "phase"}, 85)
                  /\ IF store_ok
                     THEN SetReqAnswer(s, "dsa_answer", 2, req[s].answer,
                                       judged_answer(c.candidate_answers))
                     ELSE EndReq(s)
             [] outcome = "unparsed" ->
                  /\ PublishAgentMessage(s, c,
                         "dsa_interviewer", "evaluation", {"raw_response", "phase"}, 50)
                  /\ IF store_ok
                     THEN SetReqAnswer(s, "dsa_answer", 2, req[s].answer,
                                       judged_answer(c.candidate_answers))
                     ELSE EndReq(s)
        /\ wfFrame

\* submit_dsa_answer from the return of the code evaluator's model call on
SubmitDsaAnswerReturn2(s, outcome) ==
    LET c == active_sessions[s]
    IN  /\ Waiting(s, "dsa_answer", 2)
        /\ EndReq(s)
        /\ CASE outcome = "raised" -> UNCHANGED <<active_sessions, busState>>
             [] outcome = "parsed" ->
                  PublishAgentMessage(s, [c EXCEPT !.current_score = set_score(@, {"code_quality"})],
                      "code_evaluator", "evaluation", {"code_evaluation", "score"}, 88)
             [] outcome = "unparsed" ->
                  PublishAgentMessage(s, c,
                      "code_evaluator", "evaluation", {"raw_response"}, 50)
        /\ wfFrame

\* POST /interview/{id}/dsa/hint
GetDsaHint(s) ==
    /\ Ready(s)
    /\ active_sessions[s].current_question
    /\ SetContext(s, [active_sessions[s] EXCEPT !.current_score = set_score(@, {"hints_used"})])
    /\ UNCHANGED req
    /\ wfFrame

\* a handler that records an answer and asks a role to evaluate it
SubmitAnswer(s, op, answer) ==
    LET c == [active_sessions[s] EXCEPT !.candidate_answers = Append(@, answer)]
    IN  /\ Ready(s)
        /\ HasRoom(s, 1)
        /\ Len(active_sessions[s].candidate_answers) < MaxAnswers
        /\ SetContext(s, c)
        /\ SetReqAnswer(s, op, 1, answer, judged_answer(c.candidate_answers))
    /\ wfFrame

\* a handler from the return of the model call of the role that evaluates or
\* judges: the role records its score keys when the text parsed
EvaluationReturn(s, op, outcome, sender, keys, payload, confidence, raw) ==
    LET c == active_sessions[s]
    IN  /\ Waiting(s, op, 1)
        /\ EndReq(s)
        /\ CASE outcome = "raised" -> UNCHANGED <<active_sessions, busState>>
             [] outcome = "parsed" ->
                  PublishAgentMessage(s, [c EXCEPT !.current_score = set_score(@, keys)],
                      sender, "evaluation", payload, confidence)
             [] outcome = "unparsed" ->
                  PublishAgentMessage(s, c, sender, "evaluation", raw, 50)
        /\ wfFrame

\* POST /interview/{id}/system-design/answer
SubmitSystemDesign(s, answer) == SubmitAnswer(s, "sd_answer", answer)
SubmitSystemDesignReturn(s, outcome) ==
    EvaluationReturn(s, "sd_answer", outcome, "system_design", {"system_design"},
                     {"evaluation", "score"}, 85, {"raw"})

\* POST /interview/{id}/behavioral/answer
SubmitBehavioral(s, answer) == SubmitAnswer(s, "beh_answer", answer)
SubmitBehavioralReturn(s, outcome) ==
    EvaluationReturn(s, "beh_answer", outcome, "behavioral", {"behavioral"},
                     {"evaluation", "score"}, 85, {"raw"})

\* context.messages[-5:] holds an evaluation
RecentEvaluations(c) ==
    \E i \in 1..Len(c.messages) :
        i > Len(c.messages) - 5 /\ c.messages[i].message_type = "evaluation"

\* POST /interview/{id}/validate, up to the model call of the detector; with no
\* recent evaluation the detector answers at once
ValidateEvaluations(s) ==
    LET c == active_sessions[s]
    IN  /\ Ready(s)
        /\ HasRoom(s, 1)
        /\ IF RecentEvaluations(c)
           THEN /\ UNCHANGED <<active_sessions, busState>>
                /\ SetReq(s, "validate", 1)
           ELSE /\ PublishAgentMessage(s, c, "hallucination_detector", "evaluation",
                                       {"status"}, 100)
                /\ UNCHANGED req
        /\ wfFrame

ValidateEvaluationsReturn(s, outcome, confidence) ==
    EvaluationReturn(s, "validate", outcome, "hallucination_detector", {},
                     {"validation"}, confidence, {"raw"})

\* POST /interview/{id}/debate
RunDebate(s) ==
    /\ Ready(s)
    /\ HasRoom(s, 1)
    /\ SetContext(s, [active_sessions[s] EXCEPT !.current_state = "CROSS_AGENT_DEBATE"])
    /\ SetReq(s, "debate", 1)
    /\ wfFrame

RunDebateReturn(s, outcome) ==
    EvaluationReturn(s, "debate", outcome, "critic", {"critic_opinion"},
                     {"critique"}, 80, {"raw"})

\* POST /interview/{id}/final, up to the model call of the final-decision role
GetFinalDecision(s) ==
    /\ Ready(s)
    /\ HasRoom(s, 1)
    /\ SetContext(s, [active_sessions[s] EXCEPT !.current_state = "FINAL_DECISION"])
    /\ SetReq(s, "final", 1)
    /\ wfFrame

\* get_final_decision from the return of the model call on; the phase becomes
\* COMPLETED once the message is published and stored
GetFinalDecisionReturn(s, outcome, confidence, store_ok) ==
    LET c == active_sessions[s]
        done == IF store_ok THEN "COMPLETED" ELSE c.current_state
    IN  /\ Waiting(s, "final", 1)
        /\ EndReq(s)
        /\ CASE outcome = "raised" -> UNCHANGED <<active_sessions, busState>>
             [] outcome = "parsed" ->
                  PublishAgentMessage(s,
                      [c EXCEPT !.current_score = set_score(@, {"final_recommendation", "overall"}),
                                !.current_state = done],
                      "final_decision", "evaluation", {"decision"}, confidence)
             [] outcome = "unparsed" ->
                  PublishAgentMessage(s, [c EXCEPT !.current_state = done],
                      "final_decision", "evaluation", {"raw"}, 50)
        /\ wfFrame

SessionIds == 1..MaxSessions

Next ==
    \/ Tick
    \/ \E r \in BOOLEAN : StartInterview(r)
    \/ \E s \in SessionIds, o \in Outcomes : StartInterviewReturn(s, o)
    \/ \E s \in SessionIds : StartDsa(s)
    \/ \E s \in SessionIds, o \in Outcomes : StartDsaReturn(s, o)
    \/ \E s \in SessionIds, a \in AnswerTexts : SubmitDsaAnswer(s, a)
    \/ \E s \in SessionIds, o \in Outcomes, k \in BOOLEAN : SubmitDsaAnswerReturn(s, o, k)
    \/ \E s \in SessionIds, o \in Outcomes : SubmitDsaAnswerReturn2(s, o)
    \/ \E s \in SessionIds : GetDsaHint(s)
    \/ \E s \in SessionIds : StartSystemDesign(s)
    \/ \E s \in SessionIds, o \in Outcomes : StartSystemDesignReturn(s, o)
    \/ \E s \in SessionIds, a \in AnswerTexts : SubmitSystemDesign(s, a)
    \/ \E s \in SessionIds, o \in Outcomes : SubmitSystemDesignReturn(s, o)
    \/ \E s \in SessionIds : StartBehavioral(s)
    \/ \E s \in SessionIds, o \in Outcomes : StartBehavioralReturn(s, o)
    \/ \E s \in SessionIds, a \in AnswerTexts : SubmitBehavioral(s, a)
    \/ \E s \in SessionIds, o \in Outcomes : SubmitBehavioralReturn(s, o)
    \/ \E s \in SessionIds : ValidateEvaluations(s)
    \/ \E s \in SessionIds, o \in Outcomes, q \in ModelConfidences :
          ValidateEvaluationsReturn(s, o, q)
    \/ \E s \in SessionIds : RunDebate(s)
    \/ \E s \in SessionIds, o \in Outcomes : RunDebateReturn(s, o)
    \/ \E s \in SessionIds : GetFinalDecision(s)
    \/ \E s \in SessionIds, o \in Outcomes, q \in ModelConfidences, k \in BOOLEAN :
          GetFinalDecisionReturn(s, o, q, k)

Spec == Init /\ [][Next]_vars

(***************************************************************************)
(* The session registry seen through the HTTP handlers: the lookup every   *)
(* handler of a session begins with, and the two queries.                  *)
(***************************************************************************)
\* session ids a client can address: the ids start hands out, and one it never
\* hands out
RequestIds == 1..(MaxSessions + 1)

\* the step handlers of a session (POST /interview/{session_id}/...)
StepOps ==
    {"dsa_start", "dsa_answer", "dsa_hint", "sd_start", "sd_answer",
     "beh_start", "beh_answer", "validate", "debate", "final"}

\* a lookup that registers a fresh context under an id it does not know
get_session_or_new(session_id) ==
    [found |-> TRUE,
     context |-> IF session_id \in DOMAIN active_sessions
                 THEN active_sessions[session_id] ELSE NewSession(FALSE)]

\* _get_session: the context registered under session_id, or HTTPException(404)
get_session(session_id) ==
    IF session_id \in DOMAIN active_sessions
    THEN [found |-> TRUE, context |-> active_sessions[session_id]]
    ELSE [found |-> FALSE]

\* the response FastAPI makes of HTTPException(status, detail)
HttpError(op, session_id, status, detail) ==
    [op |-> op, session_id |-> session_id, status |-> status,
     body |-> [detail |-> detail]]

HttpOk(op, session_id, body) ==
    [op |-> op, session_id |-> session_id, status |-> 200, body |-> body]

\* m.dict(): the fields of a message, by name
message_dict(m) ==
    [id |-> m.id, sender |-> m.sender, receiver |-> m.receiver,
     message_type |-> m.message_type, payload |-> m.payload,
     confidence |-> m.confidence]

\* a messages query that lists the newest message first
messages_body_newest_first(context) ==
    [i \in 1..Len(context.messages) |->
        message_dict(context.messages[Len(context.messages) + 1 - i])]

\* [m.dict() for m in context.messages]
messages_body(context) ==
    [i \in 1..Len(context.messages) |-> message_dict(context.messages[i])]

\* a step handler called with a session id the registry does not hold:
\* _get_session, the first statement of each of them, raises
StepNotFound(session_id, op) ==
    /\ ~get_session(session_id).found
    /\ http_ret' = HttpError(op, session_id, 404, "Session not found")
    /\ UNCHANGED <<smVars, tableVars, flowVars, busVars, now, active_sessions, req>>

\* POST /interview/{session_id}/dsa/hint, the whole handler (it awaits nothing)
GetDsaHintCall(session_id) ==
    LET r == get_session(session_id)
    IN  /\ IF ~r.found
           THEN /\ http_ret' = HttpError("dsa_hint", session_id, 404, "Session not found")
                /\ UNCHANGED active_sessions
           ELSE IF ~r.context.current_question
           THEN /\ http_ret' = HttpError("dsa_hint", session_id, 400, "No active question")
                /\ UNCHANGED active_sessions
           ELSE /\ http_ret' = HttpOk("dsa_hint", session_id, [hint |-> TRUE])
                /\ active_sessions' =
                      [active_sessions EXCEPT ![session_id] =
                          [r.context EXCEPT !.current_score = set_score(@, {"hints_used"})]]
        /\ UNCHANGED <<smVars, tableVars, flowVars, busVars, now, req>>

\* GET /interview/{session_id}
GetStatusCall(session_id) ==
    LET r == get_session(session_id)
    IN  /\ http_ret' =
              IF r.found
              THEN HttpOk("get_status", session_id,
                          [current_state |-> r.context.current_state,
                           messages_count |-> Len(r.context.messages),
                           scores |-> r.context.current_score,
                           current_question |-> r.context.current_question])
              ELSE HttpError("get_status", session_id, 404, "Session not found")
        /\ UNCHANGED <<smVars, tableVars, flowVars, busVars, now, active_sessions, req>>

\* GET /interview/{session_id}/messages
GetMessagesCall(session_id) ==
    LET r == get_session(session_id)
    IN  /\ http_ret' =
              IF r.found
              THEN HttpOk("get_messages", session_id,
                          [session_id |-> session_id,
                           messages |-> messages_body(r.context)])
              ELSE HttpError("get_messages", session_id, 404, "Session not found")
        /\ UNCHANGED <<smVars, tableVars, flowVars, busVars, now, active_sessions, req>>

\* sessions are started without a resume here (the recruiter answers at once)
NextLookup ==
    \/ StartInterview(FALSE)
    \/ \E s \in SessionIds : StartDsa(s)
    \/ \E s \in SessionIds, o \in {"parsed", "raised"} : StartDsaReturn(s, o)
    \/ \E i \in RequestIds, op \in StepOps : StepNotFound(i, op)
    \/ \E i \in RequestIds : GetDsaHintCall(i)
    \/ \E i \in RequestIds : GetStatusCall(i)
    \/ \E i \in RequestIds : GetMessagesCall(i)

SpecLookup == Init /\ [][NextLookup]_vars

(***************************************************************************)
(* Properties of the StateMachine                                          *)
(***************************************************************************)
\* the declared table entry of a phase, as a set (empty when there is none)
Declared(a) == IF a \in DOMAIN transitions THEN Range(transitions[a]) ELSE {}

ExecCalled == sm_ret.op = "execute_transition"
ExecAllowed == ExecCalled /\ sm_ret.target \in Declared(sm_ret.before.current_state)
ExecRefused == ExecCalled /\ sm_ret.target \notin Declared(sm_ret.before.current_state)

\* C1: whatever workflow steps run on a session (start, dsa/start, dsa/answer,
\* system-design/start, behavioral/start, validate, debate, final), every change
\* of the session's current_state from a phase p to a phase q satisfies
\* can_transition(p, q).  The handlers of main.py assign current_state without
\* consulting the StateMachine: dsa/start moves RESUME_ANALYSIS to DSA_PHASE and
\* final moves FINAL_DECISION to COMPLETED, neither of which is in the table.
C1_EveryChangeIsTableLegal ==
    [][\A s \in Sessions :
          active_sessions'[s].current_state # active_sessions[s].current_state
              => can_transition(active_sessions[s].current_state,
                                active_sessions'[s].current_state)]_vars

\* C2: execute_transition to a target that is not in the table entry of the
\* current phase raises the invalid-transition error naming the current phase
\* and the target, leaves the context as it was and calls no phase-entry hook;
\* from INIT the request for SKILL_PROFILING is refused.
C2_InvalidTransitionRefused ==
    /\ ExecRefused =>
          /\ sm_ret.error = InvalidTransition(sm_ret.before.current_state, sm_ret.target)
          /\ ctx.current_state = sm_ret.before.current_state
          /\ ctx = sm_ret.before
          /\ sm_ret.hooks = << >>
    /\ (ExecCalled /\ sm_ret.before.current_state = "INIT"
           /\ sm_ret.target = "SKILL_PROFILING") =>
          sm_ret.error.type = "ValueError"

\* C2 witness: from INIT, SKILL_PROFILING was requested while a hook was
\* registered for SKILL_PROFILING, and the call was refused.
C2_Witness ==
    /\ ExecCalled
    /\ sm_ret.before.current_state = "INIT"
    /\ sm_ret.target = "SKILL_PROFILING"
    /\ handler_for(state_handlers, "SKILL_PROFILING") \in {"keep", "append", "raise"}
    /\ sm_ret.error.type = "ValueError"
    /\ ctx.current_state = "INIT"

\* C3: execute_transition to an allowed target sets current_state to the target
\* and then calls the hook registered for the target exactly once; the hook sees
\* current_state = target; with no hook registered only current_state changes.
C3_AssignThenHookOnce ==
    ExecAllowed =>
        LET h == handler_for(state_handlers, sm_ret.target)
        IN  /\ ctx.current_state = sm_ret.target
            /\ (h = None) =>
                  /\ sm_ret.hooks = << >>
                  /\ sm_ret.error = NoError
                  /\ ctx = [sm_ret.before EXCEPT !.current_state = sm_ret.target]
            /\ (h # None) =>
                  sm_ret.hooks = <<[phase |-> sm_ret.target, seen |-> sm_ret.target]>>

\* C3 witness: an allowed transition into a phase with a registered hook that
\* appended to the context.
C3_Witness ==
    /\ ExecAllowed
    /\ handler_for(state_handlers, sm_ret.target) = "append"
    /\ Len(sm_ret.hooks) = 1
    /\ ctx.current_state = sm_ret.target
    /\ Len(ctx.messages) = Len(sm_ret.before.messages) + 1

DnsCalled == sm_ret.op = "determine_next_state"

\* C6: in DSA_PHASE determine_next_state returns CODE_EVALUATION when the last
\* message of the log has the "code" key in its payload and SYSTEM_DESIGN_PHASE
\* otherwise, the empty log included.
C6_CodingPhaseBranch ==
    (DnsCalled /\ ctx.current_state = "DSA_PHASE") =>
        LET log == ctx.messages
        IN  /\ (log # << >> /\ "code" \in log[Len(log)]) =>
                  sm_ret.result = "CODE_EVALUATION"
            /\ (log = << >> \/ "code" \notin log[Len(log)]) =>
                  sm_ret.result = "SYSTEM_DESIGN_PHASE"

\* C6 witness: the branch was resolved in DSA_PHASE with a log whose last
\* message carries the key, after an earlier message without it.
C6_Witness ==
    /\ DnsCalled
    /\ ctx.current_state = "DSA_PHASE"
    /\ Len(ctx.messages) = 2
    /\ "code" \notin ctx.messages[1]
    /\ "code" \in ctx.messages[2]
    /\ sm_ret.result = "CODE_EVALUATION"

LastPayload(c) == IF c.messages = << >> THEN << >> ELSE <<c.messages[Len(c.messages)]>>

\* C7: in a phase with successors other than the coding phase (the one phase
\* with a branch predicate) determine_next_state returns the first declared
\* successor, and any context with the same phase and the same last payload
\* gets the same answer.
C7_FirstSuccessorDefault ==
    DnsCalled =>
        LET cur == ctx.current_state
        IN  /\ (cur # "DSA_PHASE" /\ Declared(cur) # {}) =>
                  sm_ret.result = transitions[cur][1]
            /\ \A c \in Contexts :
                  (c.current_state = cur
                     /\ LastPayload(c) = LastPayload(ctx)) =>
                        determine_next_state(c) = sm_ret.result

\* C7 witness: the default was taken in a phase without a branch predicate,
\* with messages in the log.
C7_Witness ==
    /\ DnsCalled
    /\ ctx.current_state = "CODE_EVALUATION"
    /\ ctx.messages # << >>
    /\ sm_ret.result = "SYSTEM_DESIGN_PHASE"

\* C4: can_transition(a, b) is true exactly when b is in the declared table
\* entry of a; it is false for every b when the entry of a is empty or missing;
\* it does not raise.
C4_CanTransitionIsTable ==
    query.op = "can_transition" =>
        /\ query.result = (query.to \in Declared(query.from))
        /\ (query.from \notin DOMAIN transitions \/ transitions[query.from] = << >>)
              => query.result = FALSE
        /\ ~ query.raised

\* C4 witness: a query from a value without a table entry was answered FALSE.
C4_Witness ==
    /\ query.op = "can_transition"
    /\ query.from \notin DOMAIN transitions
    /\ query.to \in Phases
    /\ query.result = FALSE

Succ(p) == Range(get_next_states(p))

RECURSIVE ReachWithin(_, _)
\* the phases reached from the set S in at least one and at most n steps
ReachWithin(S, n) ==
    IF n = 0 THEN {}
    ELSE LET next == UNION {Succ(p) : p \in S}
         IN  next \cup ReachWithin(next, n - 1)

ReachFrom(p) == ReachWithin({p}, Cardinality(Phases))

\* C5: no phase reachable from INIT lies on a cycle, COMPLETED is reachable from
\* INIT, every phase other than COMPLETED has a successor and COMPLETED has none.
C5_TableAcyclicOneTerminal ==
    /\ \A p \in {"INIT"} \cup ReachFrom("INIT") : p \notin ReachFrom(p)
    /\ "COMPLETED" \in ReachFrom("INIT")
    /\ \A p \in Phases : (Succ(p) = {}) <=> (p = "COMPLETED")
    /\ (query.op = "get_next_states" /\ query.from \in Phases) =>
          ((query.result = << >>) <=> (query.from = "COMPLETED"))

\* C5 witness: get_next_states of the terminal phase returned the empty list.
C5_Witness ==
    /\ query.op = "get_next_states"
    /\ query.from = "COMPLETED"
    /\ query.result = << >>

\* C8: validate_flow(S) is true exactly when every consecutive pair of S is in
\* the table; true for the empty and the one-element sequence and for every walk
\* that starts at INIT and follows successors; false once one step of S is not
\* in the table.
C8_ValidateFlow ==
    query.op = "validate_flow" =>
        LET S == query.arg
        IN  /\ query.result = (\A i \in 1..(Len(S) - 1) : S[i + 1] \in Declared(S[i]))
            /\ Len(S) <= 1 => query.result
            /\ jumps = 0 => query.result
            /\ jumps >= 1 => ~ query.result

\* C8 witness: a walk from INIT with one step outside the table, continued by
\* successors, was found invalid.
C8_Witness ==
    /\ query.op = "validate_flow"
    /\ jumps = 1
    /\ Len(query.arg) >= 4
    /\ query.arg[1] = "INIT"
    /\ query.arg[3] \notin Declared(query.arg[2])
    /\ query.result = FALSE

(***************************************************************************)
(* Properties of the MessageBus history                                    *)
(***************************************************************************)
Min(a, b) == IF a < b THEN a ELSE b

\* the last k entries of seq, in their order
LastK(seq, k) == SubSeq(seq, Len(seq) - Min(k, Len(seq)) + 1, Len(seq))

Unfiltered ==
    /\ bus_ret.op = "get_history"
    /\ bus_ret.sender = None
    /\ bus_ret.receiver = None
    /\ bus_ret.message_type = None

\* the history holds the messages in the order of their publish calls
InPublishOrder(history) ==
    \A i, j \in 1..Len(history) : i < j => history[i].id[2] < history[j].id[2]

\* C9 as stated: after N publish calls on an empty history get_history() without
\* arguments returns all N messages in publish order, for every N.
C9_NoTruncationWhenOmitted ==
    (Unfiltered /\ ~ bus_ret.limit_given) =>
        /\ bus_ret.result = message_history
        /\ Len(bus_ret.result) = now

\* C9 amended: get_history() without arguments returns the last
\* min(N, DefaultLimit) of the N published messages in publish order; all N of
\* them as long as N does not exceed the default limit of 50.
C9_DefaultLimitTruncates ==
    (Unfiltered /\ ~ bus_ret.limit_given) =>
        /\ Len(message_history) = now
        /\ InPublishOrder(message_history)
        /\ bus_ret.result = LastK(message_history, DefaultLimit)
        /\ Len(bus_ret.result) = Min(now, DefaultLimit)
        /\ now <= DefaultLimit => bus_ret.result = message_history

\* C9 witness: more than DefaultLimit messages were published and the history
\* was read with the limit left out.
C9_Witness ==
    /\ Unfiltered
    /\ ~ bus_ret.limit_given
    /\ Len(message_history) > DefaultLimit
    /\ Len(bus_ret.result) = DefaultLimit
    /\ bus_ret.result[1] = message_history[Len(message_history) - DefaultLimit + 1]

\* C10 as stated: for a history of N messages and a limit k >= 0,
\* get_history(limit=k) returns the last min(k, N) messages in publish order.
C10_LimitKeepsLastK ==
    (Unfiltered /\ bus_ret.limit_given /\ bus_ret.limit # NoLimit) =>
        /\ bus_ret.result = LastK(message_history, bus_ret.limit[1])
        /\ Len(bus_ret.result) = Min(bus_ret.limit[1], Len(message_history))

\* what holds of the code instead: a limit of 0 is read as no limit
C10_PositiveLimitKeepsLastK ==
    (Unfiltered /\ bus_ret.limit_given /\ bus_ret.limit # NoLimit) =>
        IF bus_ret.limit[1] = 0
        THEN bus_ret.result = message_history
        ELSE bus_ret.result = LastK(message_history, bus_ret.limit[1])

(***************************************************************************)
(* Properties of the MessageBus: filters, dispatch, queue                  *)
(***************************************************************************)
\* m passes every filter that was provided
Matches(m, sender, receiver, message_type) ==
    /\ sender = None \/ m.sender = sender
    /\ receiver = None \/ m.receiver = receiver
    /\ message_type = None \/ m.message_type = message_type

\* the messages of history that pass the filters of the call r, in their order
Matching(history, r) ==
    SelectSeq(history, LAMBDA m : Matches(m, r.sender, r.receiver, r.message_type))

\* this step is a get_history call that leaves the limit out
GetHistoryDefaultStep ==
    /\ bus_ret' # bus_ret
    /\ bus_ret'.op = "get_history"
    /\ ~ bus_ret'.limit_given

BusRegistrations == <<subscribers, broadcast_callbacks>>

\* C11 as stated: get_history(sender, receiver, message_type) returns exactly the
\* messages of the history that match every provided filter, in publish order,
\* and leaves the history, the queue and the registrations unchanged.
C11_FiltersReturnEveryMatch ==
    [][GetHistoryDefaultStep =>
          /\ bus_ret'.result = Matching(message_history, bus_ret')
          /\ UNCHANGED <<message_history, message_queue, BusRegistrations>>]_vars

\* C11 amended: get_history(sender, receiver, message_type) returns, in publish
\* order, the last DefaultLimit (50) of the messages that match every provided
\* filter -- all of them when there are at most 50 -- and leaves the history,
\* the queue and the registrations unchanged.
C11_FiltersReturnLastMatches ==
    [][GetHistoryDefaultStep =>
          /\ InPublishOrder(message_history)
          /\ bus_ret'.result = LastK(Matching(message_history, bus_ret'), DefaultLimit)
          /\ Len(Matching(message_history, bus_ret')) <= DefaultLimit
                => bus_ret'.result = Matching(message_history, bus_ret')
          /\ UNCHANGED <<message_history, message_queue, BusRegistrations>>]_vars

\* C11 witness: a filtered call without limit on a history that holds more than
\* 50 matching messages and one that does not match; it returned the last 50.
C11_Witness ==
    /\ bus_ret.op = "get_history"
    /\ ~ bus_ret.limit_given
    /\ bus_ret.message_type # None
    /\ Len(Matching(message_history, bus_ret)) > DefaultLimit
    /\ Len(Matching(message_history, bus_ret)) < Len(message_history)
    /\ Len(bus_ret.result) = DefaultLimit
    /\ bus_ret.result[DefaultLimit] = message_history[Len(message_history)]
    /\ message_queue # << >>


\* this step is a publish call
PublishStep == bus_ret' # bus_ret /\ bus_ret'.op = "publish"

\* how often x occurs in seq
Count(seq, x) == Cardinality({i \in DOMAIN seq : seq[i] = x})

\* the registrations of callback c a message m is meant for: with a receiver,
\* those under that role; without one, those under any role
RoleRegistrations(c, m) ==
    {p \in (DOMAIN subscribers) \X (1..Registrations) :
        /\ p[2] \in DOMAIN subscribers[p[1]].callbacks
        /\ subscribers[p[1]].callbacks[p[2]] = c
        /\ m.receiver = None \/ subscribers[p[1]].agent_type = m.receiver}

\* the tasks the step has created
NewTasks == SubSeq(tasks', Len(tasks) + 1, Len(tasks'))

\* C12: publish(m) creates one callback task per registration selected for m and
\* no other: every broadcast subscriber, and among the role subscribers every
\* one when m has no receiver, only those registered for R when m.receiver = R
\* (none when R has no subscribers).
C12_DispatchFollowsReceiver ==
    [][PublishStep =>
          /\ SubSeq(tasks', 1, Len(tasks)) = tasks
          /\ \A j \in DOMAIN NewTasks : NewTasks[j].message = bus_ret'.message
          /\ \A c \in AnyCallbacks :
                Cardinality({j \in DOMAIN NewTasks : NewTasks[j].callback = c})
                  = Count(broadcast_callbacks, c)
                      + Cardinality(RoleRegistrations(c, bus_ret'.message))]_vars

\* C12 witness: a message addressed to code_evaluator was published while one
\* callback was registered for code_evaluator and one for critic: exactly the
\* former got a task.
C12_Witness ==
    /\ bus_ret.op = "publish"
    /\ bus_ret.message.receiver = "code_evaluator"
    /\ \E i, j \in DOMAIN subscribers :
          /\ subscribers[i].agent_type = "code_evaluator"
          /\ subscribers[j].agent_type = "critic"
          /\ tasks = <<[callback |-> subscribers[i].callbacks[1],
                        message |-> bus_ret.message]>>


\* this step is a publish or a broadcast call
DispatchStep == bus_ret' # bus_ret /\ bus_ret'.op \in {"publish", "broadcast"}

\* the step has recorded the message m as the newest of the history and of the queue
Recorded(m) ==
    /\ message_history' # << >> /\ message_history'[Len(message_history')] = m
    /\ message_queue' # << >> /\ message_queue'[Len(message_queue')] = m

\* C13 as stated: whatever a subscriber callback does -- raise when it is called
\* or fail while it runs --, every other callback selected for the message still
\* gets its task, publish does not raise, and the message is in the history and
\* in the queue.
C13_FailingCallbackIsolated ==
    [][/\ DispatchStep =>
            /\ ~ bus_ret'.raised
            /\ Len(NewTasks) = Len(dispatch(bus_ret'.message, subscribers, broadcast_callbacks))
            /\ Recorded(bus_ret'.message)
       /\ (bus_ret'.op = "run_task" /\ tasks # << >>) => tasks' = Tail(tasks)]_vars

\* what holds of the code instead: the message is recorded before the loops, a
\* callback that fails while it runs leaves the other tasks alone, and publish
\* raises exactly when the call of a selected callback raises, after the tasks
\* of the callbacks before it were created.
C13_OnlyRunningFailuresIsolated ==
    [][/\ DispatchStep =>
            /\ Recorded(bus_ret'.message)
            /\ bus_ret'.raised <=>
                  \E i \in DOMAIN dispatch(bus_ret'.message, subscribers, broadcast_callbacks) :
                      dispatch(bus_ret'.message, subscribers, broadcast_callbacks)[i]
                          = FaultyCallback
            /\ ~ bus_ret'.raised =>
                  Len(NewTasks) = Len(dispatch(bus_ret'.message, subscribers,
                                               broadcast_callbacks))
       /\ (bus_ret'.op = "run_task" /\ tasks # << >>) => tasks' = Tail(tasks)]_vars


\* the messages the get_message calls have returned, in return order
ReturnedMessages ==
    LET got == SelectSeq(received, LAMBDA r : ~ r.timed_out)
    IN  [i \in DOMAIN got |-> got[i].result[1]]

\* every message ever put on the queue, in the order of the puts: those taken
\* off it, then those still on it
Enqueued == ReturnedMessages \o message_queue

TimeStep == bus_ret'.op = "time_passes" /\ Outstanding # << >>

\* C15 as stated: whenever get_message is given a timeout (any value >= 0) and
\* no message becomes available before it elapses, the call fails with Timeout
\* instead of waiting on: no call is still suspended once it has waited longer
\* than the timeout it was given; a call that timed out took nothing from the
\* queue and the history is as it was.
C15_TimeoutAlwaysFails ==
    [][/\ \A i \in DOMAIN Outstanding' :
             Outstanding'[i].timeout # NoTimeout
                => Outstanding'[i].waited <= Outstanding'[i].timeout[1]
       /\ TimeStep => UNCHANGED <<message_history, message_queue>>]_vars

\* what holds of the code instead: only a timeout other than 0 arms the timer;
\* get_message(timeout=0) waits like get_message() does
C15_NonZeroTimeoutFails ==
    [][/\ \A i \in DOMAIN Outstanding' :
             TimerSet(Outstanding'[i].timeout)
                => Outstanding'[i].waited < Outstanding'[i].timeout[1]
       /\ TimeStep => UNCHANGED <<message_history, message_queue>>
       /\ \A k \in DOMAIN received' :
             received'[k].timed_out => TimerSet(received'[k].timeout)]_vars


\* a is the tail end of b
IsSuffix(a, b) ==
    /\ Len(a) <= Len(b)
    /\ a = SubSeq(b, Len(b) - Len(a) + 1, Len(b))

\* C17: however the publish calls of concurrent callers interleave, the history
\* lists the messages in the order they were put on the queue: the history
\* (the messages published since the last clear_history) is the tail end of
\* the sequence of all messages enqueued, and each publish step appends its
\* message to both at once.
C17_HistoryOrderIsQueueOrder ==
    [][/\ IsSuffix(message_history', Enqueued')
       /\ PublishStep =>
             /\ message_history' = Append(message_history, bus_ret'.message)
             /\ Enqueued' = Append(Enqueued, bus_ret'.message)]_vars

\* C17 witness: two callers have published one message each, one of the
\* messages has been taken off the queue, and the history holds both in the
\* order of the puts.
C17_Witness ==
    /\ Len(message_history) = 2
    /\ message_history[1].sender # message_history[2].sender
    /\ Len(ReturnedMessages) = 1
    /\ message_queue = <<message_history[2]>>
    /\ ReturnedMessages = <<message_history[1]>>


\* this step is a clear_history call
ClearStep == bus_ret' # bus_ret /\ bus_ret'.op = "clear_history"

\* C16: clear_history empties the history and leaves the pending items of the
\* queue (content and order), the role and broadcast registrations, the pending
\* callback tasks and the callback invocations already made as they were; the
\* publish or broadcast that follows it is recorded as the only entry of the
\* history and as the newest item of the queue.
C16_ClearHistoryFrame ==
    [][/\ ClearStep =>
             /\ message_history' = << >>
             /\ UNCHANGED <<message_queue, BusRegistrations, tasks, delivered,
                            getters, resuming, received>>
       /\ (bus_ret.op = "clear_history" /\ DispatchStep) =>
             /\ message_history' = <<bus_ret'.message>>
             /\ message_queue' = Append(message_queue, bus_ret'.message)]_vars

\* C16 witness: the history was cleared while a message was on the queue and a
\* callback task was pending, and a message published afterwards is the only
\* entry of the history.
C16_Witness ==
    /\ bus_ret.op = "publish"
    /\ message_history = <<bus_ret.message>>
    /\ Len(message_queue) = 2
    /\ message_queue[2] = bus_ret.message
    /\ Len(tasks) = 2
    /\ tasks[1].message = message_queue[1]
    /\ Registrations > 0


\* every entry of the history that the step keeps reads as it did before
HistoryEntriesKept ==
    \A i \in DOMAIN message_history :
        i \in DOMAIN message_history' => message_history'[i] = message_history[i]

\* C19 as stated: a message is never mutated after it has been published: no
\* field of an entry of the history (receiver included) changes in a later
\* state, whatever bus operation follows, broadcast(message) on a message
\* that was already published included.
C19_PublishedNeverMutated == [][HistoryEntriesKept]_vars

\* what holds of the code instead: broadcast is the one operation that writes
\* to a message, and it changes nothing but the receiver
C19_OnlyBroadcastRewritesReceiver ==
    [][/\ bus_ret'.op # "broadcast" => HistoryEntriesKept
       /\ \A i \in DOMAIN message_history :
             i \in DOMAIN message_history' =>
                 [message_history'[i] EXCEPT !.receiver = None]
                     = [message_history[i] EXCEPT !.receiver = None]]_vars


\* callback tasks created so far
TasksCreated == Len(delivered) + Len(tasks)

\* the k-th callback task created: its callback and the message object it got
CreatedTask(k) ==
    IF k <= Len(delivered)
    THEN <<delivered[k].callback, delivered[k].message.id>>
    ELSE <<tasks[k - Len(delivered)].callback, tasks[k - Len(delivered)].message.id>>

\* C18: with an event loop that is fair to its ready tasks, every callback task
\* publish creates -- one per subscriber selected for the message at publish
\* time (C12) -- is eventually run: the k-th task created keeps its callback
\* and its message, and the callback is eventually invoked with that message,
\* also after callbacks run before it have failed.
C18_EveryDispatchRuns ==
    /\ [][\A k \in 1..TasksCreated :
             k <= TasksCreated' /\ CreatedTask(k)' = CreatedTask(k)]_vars
    /\ \A k \in 1..(MaxSubs * MaxBusPublished) :
          (TasksCreated >= k) ~> (Len(delivered) >= k)

\* C18 witness: one message was published to two subscribers; the callback of
\* the first failed while it ran and the second was invoked all the same.
C18_Witness ==
    /\ Len(delivered) = 2
    /\ tasks = << >>
    /\ delivered[1].failed
    /\ ~ delivered[2].failed
    /\ delivered[1].message = delivered[2].message
    /\ delivered[1].callback # delivered[2].callback


(***************************************************************************)
(* Properties of the session log                                           *)
(***************************************************************************)
\* C20 as stated: within one session no two messages of the log carry the same
\* identifier, whatever steps are run, two messages created by the same role
\* at the same reading of the clock included.
C20_LogIdentifiersDistinct ==
    \A s \in Sessions :
        \A i, j \in DOMAIN active_sessions[s].messages :
            i # j => active_sessions[s].messages[i].id # active_sessions[s].messages[j].id

\* what holds of the code instead: the identifier is the role and the reading
\* of the clock, so two messages of a log differ in it exactly when they were
\* created by different roles or at different readings
C20_IdentifierIsRoleAndClock ==
    \A s \in Sessions :
        \A i \in DOMAIN active_sessions[s].messages :
            /\ active_sessions[s].messages[i].id[1] = active_sessions[s].messages[i].sender
            /\ active_sessions[s].messages[i].id[2] <= now

(***************************************************************************)
(* Properties of the session registry and the step handlers                *)
(***************************************************************************)
\* the sessions a step has just put into the registry
Created == (DOMAIN active_sessions') \ Sessions

C22_CompletedIsTerminal ==
    [][\A s \in Sessions :
          active_sessions[s].current_state = "COMPLETED"
              => active_sessions'[s].current_state = "COMPLETED"]_vars

\* the messages a step has appended to the log of session s
Appended(s) ==
    LET old == active_sessions[s].messages
        new == active_sessions'[s].messages
    IN  {new[i].sender : i \in (Len(old) + 1)..Len(new)}

\* the roles declared before role r in a list of roles
RolesBefore(roles, r) ==
    {roles[i] : i \in {j \in DOMAIN roles : \A k \in 1..j : roles[k] # r}}

\* C23: while a phase is current, the roles of state_agents[phase] are invoked
\* in the declared order and each publishes before the next acts: a message
\* appended to a session's log while phase p is current comes from a role of
\* get_active_agents(p), and the roles declared before that role have their
\* messages in the log already.  No handler reads state_agents: dsa/answer runs
\* dsa_interviewer and then code_evaluator while DSA_PHASE is current, and
\* validate runs the detector in whatever phase the session is in.
C23_PhaseRolesActInOrder ==
    [][\A s \in Sessions : \A r \in Appended(s) :
          LET roles == get_active_agents(active_sessions[s].current_state)
          IN  /\ r \in Range(roles)
              /\ \A q \in RolesBefore(roles, r) :
                    \E i \in DOMAIN active_sessions'[s].messages :
                        active_sessions'[s].messages[i].sender = q]_vars

\* C24: the score map of a session is only added to: a category key present in
\* context.current_score in one state is present in every later state, and the
\* session that carries it stays registered.
C24_ScoreKeysNeverRemoved ==
    [][\A s \in Sessions :
          /\ s \in DOMAIN active_sessions'
          /\ active_sessions[s].current_score \subseteq active_sessions'[s].current_score]_vars

\* a session whose score map was written by the hint step and by two roles
C24_Witness ==
    \E s \in Sessions :
        /\ "hints_used" \in active_sessions[s].current_score
        /\ Cardinality(active_sessions[s].current_score) >= 3

\* the step gave a new response to a request of kind op addressed to id i
Responded(i, ops) ==
    /\ http_ret' # http_ret
    /\ http_ret'.op \in ops
    /\ http_ret'.session_id = i

\* C25: every step operation addressed to a session id that is not in the
\* registry fails with 404 "Session not found", and leaves every session
\* context, the requests in flight, the bus history, the queue, the
\* registrations and the tasks unchanged (no role was invoked, nothing was
\* published); and no step handler registers a session.
C25_UnknownSessionNotFound ==
    [][\A i \in RequestIds :
          /\ (i \notin Sessions /\ Responded(i, StepOps))
                => /\ http_ret'.status = 404
                   /\ http_ret'.body = [detail |-> "Session not found"]
                   /\ UNCHANGED <<active_sessions, req, busVars, now>>
          /\ (i \notin Sessions /\ i \in DOMAIN active_sessions')
                => /\ UNCHANGED http_ret
                   /\ req'[i].op \in {"idle", "start"}]_vars

\* a step was addressed to an unknown id while a session with a message in its
\* log, in the bus history and in the queue was registered
C25_Witness ==
    /\ http_ret.op \in StepOps
    /\ http_ret.status = 404
    /\ http_ret.session_id \notin Sessions
    /\ \E s \in Sessions : active_sessions[s].messages # << >>
    /\ message_history # << >>
    /\ message_queue # << >>

\* the log new continues the log old
Continues(old, new) ==
    /\ Len(old) <= Len(new)
    /\ \A k \in 1..Len(old) : new[k] = old[k]

Queries == {"get_status", "get_messages"}

\* C26: a session once registered stays registered in every later state and
\* its log is only appended to; a request addressed to a registered id is never
\* answered 404, the queries answer 200, and the messages query returns the
\* messages of that session's log, each as its dict, in the order of the log.
C26_SessionsKeptAndLogReturned ==
    [][\A i \in Sessions :
          /\ i \in DOMAIN active_sessions'
          /\ Continues(active_sessions[i].messages, active_sessions'[i].messages)
          /\ Responded(i, StepOps \cup Queries) => http_ret'.status # 404
          /\ Responded(i, Queries) => http_ret'.status = 200
          /\ Responded(i, {"get_status"})
                => /\ http_ret'.body.current_state = active_sessions[i].current_state
                   /\ http_ret'.body.messages_count = Len(active_sessions[i].messages)
          /\ Responded(i, {"get_messages"})
                => /\ Len(http_ret'.body.messages) = Len(active_sessions[i].messages)
                   /\ \A k \in 1..Len(active_sessions[i].messages) :
                         /\ http_ret'.body.messages[k].id = active_sessions[i].messages[k].id
                         /\ http_ret'.body.messages[k].sender =
                                active_sessions[i].messages[k].sender
                         /\ http_ret'.body.messages[k].payload =
                                active_sessions[i].messages[k].payload]_vars

\* the messages query has returned the three-message log of a session that
\* has left the phase it was created in
C26_Witness ==
    /\ http_ret.op = "get_messages"
    /\ http_ret.status = 200
    /\ http_ret.session_id \in Sessions
    /\ active_sessions[http_ret.session_id].current_state = "DSA_PHASE"
    /\ Len(http_ret.body.messages) = 3
    /\ http_ret.body.messages[1].sender # http_ret.body.messages[3].sender

\* the declared roles of a phase (none when the map has no entry)
DeclaredRoles(a) == IF a \in DOMAIN state_agents THEN state_agents[a] ELSE << >>

QueryOps == {"can_transition", "get_next_states", "get_active_agents", "determine_next_state"}

\* C27: for every phase (and the value the tables have no entry for) and every
\* context, can_transition, get_next_states, get_active_agents and
\* determine_next_state return a value without raising -- get_next_states and
\* get_active_agents the declared entry, or the empty list when there is none --
\* and leave the context held by the state machine's caller, the handlers and
\* everything else as they were.
C27_QueriesNeverRaise ==
    /\ query.op \in QueryOps =>
          /\ ~query.raised
          /\ query.op = "can_transition" => query.result \in BOOLEAN
          /\ query.op = "get_next_states" =>
                query.result = (IF query.from \in DOMAIN transitions
                                THEN transitions[query.from] ELSE << >>)
          /\ query.op = "get_active_agents" => query.result = DeclaredRoles(query.from)
          /\ query.op = "determine_next_state" => query.result \in Phases
    /\ ctx = NewInterviewContext
    /\ state_handlers = << >>
    /\ sm_ret = Idle
    /\ active_sessions = << >>
    /\ message_history = << >>

\* get_active_agents was asked about a value the map has no entry for
C27_Witness ==
    /\ query.op = "get_active_agents"
    /\ query.from \notin DOMAIN state_agents
    /\ query.result = << >>
    /\ ~query.raised

\* C30: every phase named as a key or successor in self.transitions and every
\* phase named in self.state_agents is a member of the InterviewState
\* enumeration, so StateMachine() can be constructed.  The enumeration has
\* eight members; the tables also name SKILL_PROFILING, CODE_EVALUATION and
\* REPORT_GENERATION, and the constructor raises AttributeError.
C30_NamedPhasesAreMembers ==
    query.op = "StateMachine" =>
        /\ query.result = {}
        /\ ~query.raised
        /\ NamesUsed \subseteq InterviewState

\* the model call a step of session s was waiting for has come back
CallReturned(s) == req[s].op # "idle" /\ req'[s] # req[s]

\* C28: when the model call of a role comes back malformed or fails, the step
\* still publishes its message (degraded) to the session's log and to the bus,
\* and keeps phase and score keys.  A response that does not parse is handled
\* that way; an exception of call_llm is caught nowhere, so the handler ends
\* there: nothing is published for the step.
C28_DegradedMessageAlwaysPublished ==
    [][\A s \in Sessions :
          CallReturned(s) =>
              /\ Len(active_sessions'[s].messages) = Len(active_sessions[s].messages) + 1
              /\ Len(message_history') = Len(message_history) + 1
              /\ active_sessions[s].current_score \subseteq active_sessions'[s].current_score]_vars

\* C29: every published message has a confidence within [0, 1] (0..100 in
\* hundredths), whatever the model returned to the role that built it.  The
\* detector publishes accuracy_score / 10 and the final-decision role publishes
\* the model's "confidence" as they come; neither is clamped or validated.
C29_ConfidenceWithinUnitInterval ==
    \A i \in DOMAIN message_history :
        message_history[i].confidence \in 0..100

\* the context of a session as determine_next_state reads it: the phase and the
\* payload keys of the messages of the log
AsContext(c) ==
    [current_state |-> c.current_state,
     messages |-> [i \in 1..Len(c.messages) |-> c.messages[i].payload]]

\* the last message of a session's log comes from the code evaluator, which
\* parsed the model's review of the submitted code
CodeReviewed(c) ==
    /\ c.messages # << >>
    /\ c.messages[Len(c.messages)].sender = "code_evaluator"
    /\ c.messages[Len(c.messages)].payload = {"code_evaluation", "score"}

\* C31: the payload key the coding-phase branch of determine_next_state reads
\* ("code") is set by an upstream role, so that the step operations produce a
\* session in DSA_PHASE whose last message carries the key and for which
\* determine_next_state returns CODE_EVALUATION: here, the session whose code
\* the code evaluator has just reviewed.  The evaluator's metadata has the keys
\* code_evaluation and score, and no role attaches a key named code.
C31_UpstreamRoleSetsBranchKey ==
    \A s \in Sessions :
        (active_sessions[s].current_state = "DSA_PHASE" /\ CodeReviewed(active_sessions[s]))
            => /\ "code" \in active_sessions[s].messages[Len(active_sessions[s].messages)].payload
               /\ determine_next_state(AsContext(active_sessions[s])) = "CODE_EVALUATION"

\* what the step operations do produce: no message of any log carries the key,
\* and for every session in DSA_PHASE determine_next_state returns
\* SYSTEM_DESIGN_PHASE
C31_NoRoleSetsBranchKey ==
    \A s \in Sessions :
        /\ \A i \in DOMAIN active_sessions[s].messages :
              "code" \notin active_sessions[s].messages[i].payload
        /\ active_sessions[s].current_state = "DSA_PHASE"
              => determine_next_state(AsContext(active_sessions[s])) = "SYSTEM_DESIGN_PHASE"

\* C33: starting at INIT and repeatedly applying execute_transition(context,
\* determine_next_state(context)), no transition is refused, every phase asked
\* for is a declared successor of the phase before, and COMPLETED is reached
\* after at most ten steps, whatever the log holds and whenever messages are
\* appended to it.
C33_DrivingReachesCompleted ==
    /\ [](ExecCalled => /\ sm_ret.error = NoError
                        /\ ExecAllowed
                        /\ ctx.current_state = sm_ret.target)
    /\ [](Len(flow) <= 10)
    /\ <>(ctx.current_state = "COMPLETED")

\* the caller has arrived at COMPLETED by way of the code-evaluation phase,
\* with a full log
C33_Witness ==
    /\ ctx.current_state = "COMPLETED"
    /\ Len(flow) = 10
    /\ flow[4] = "CODE_EVALUATION"
    /\ flow[10] = "COMPLETED"
    /\ Len(ctx.messages) = MaxMsgs

\* C34: for every context in a phase with declared successors
\* determine_next_state returns a phase p with can_transition(current_state, p);
\* for a context in COMPLETED, or in any phase without successors, it returns
\* current_state itself.
C34_NextStateIsLegalOrCurrent ==
    query.op = "determine_next_state" =>
        LET cur == query.context.current_state
        IN  /\ Declared(cur) # {} =>
                  /\ can_transition(cur, query.result)
                  /\ query.result \in Range(get_next_states(cur))
            /\ Declared(cur) = {} => query.result = cur
            /\ cur = "COMPLETED" => query.result = "COMPLETED"

\* determine_next_state was asked about a context in the coding phase whose
\* last message carries the key, and answered with the second declared successor
C34_Witness ==
    /\ query.op = "determine_next_state"
    /\ query.context.current_state = "DSA_PHASE"
    /\ Len(query.context.messages) = MaxMsgs
    /\ query.result = transitions["DSA_PHASE"][2]
    /\ can_transition("DSA_PHASE", query.result)

\* execute_transition was called for an allowed target whose hook raises
HookFailed == ExecAllowed /\ handler_for(state_handlers, sm_ret.target) = "raise"

\* C35: when the phase-entry hook called by execute_transition raises, the
\* exception reaches the caller and the context stays in the target phase: the
\* assignment made before the hook ran is not undone, and nothing else of the
\* context has changed.
C35_FailedHookKeepsTarget ==
    HookFailed =>
        /\ sm_ret.error = HookError
        /\ sm_ret.hooks = <<[phase |-> sm_ret.target, seen |-> sm_ret.target]>>
        /\ ctx.current_state = sm_ret.target
        /\ ctx.current_state # sm_ret.before.current_state
        /\ ctx = [sm_ret.before EXCEPT !.current_state = sm_ret.target]

\* the hook of DSA_PHASE raised on the way in from SKILL_PROFILING, with
\* messages in the log
C35_Witness ==
    /\ HookFailed
    /\ sm_ret.before.current_state = "SKILL_PROFILING"
    /\ sm_ret.target = "DSA_PHASE"
    /\ sm_ret.error = HookError
    /\ ctx.current_state = "DSA_PHASE"
    /\ ctx.messages # << >>

\* the step has put one more message into the history
HistoryGrew == Len(message_history') = Len(message_history) + 1

\* C37: each publish creates, for the message it publishes, one callback task
\* per registration selected for it at that moment (every entry of the
\* broadcast list, and the entries of the role lists the receiver selects) and
\* no other; a task is run once, in creation order; registering a callback
\* creates no task, so a callback registered after a message was published is
\* never dispatched for that earlier publish.
C37_OncePerRegistrationNoReplay ==
    [][/\ HistoryGrew =>
             LET m == message_history'[Len(message_history')]
             IN  /\ Len(tasks') >= Len(tasks)
                 /\ \A k \in DOMAIN tasks :
                       /\ tasks'[k].callback = tasks[k].callback
                       /\ tasks'[k].message.id = tasks[k].message.id
                 /\ \A j \in DOMAIN NewTasks : NewTasks[j].message = m
                 /\ \A c \in AnyCallbacks :
                       Cardinality({j \in DOMAIN NewTasks : NewTasks[j].callback = c})
                         = Count(broadcast_callbacks, c)
                             + Cardinality(RoleRegistrations(c, m))
                 /\ delivered' = delivered
       /\ ~HistoryGrew =>
             /\ Len(tasks') <= Len(tasks)
             /\ tasks' # tasks =>
                   /\ tasks' = Tail(tasks)
                   /\ Len(delivered') = Len(delivered) + 1
                   /\ delivered'[Len(delivered')].callback = Head(tasks).callback
                   /\ delivered'[Len(delivered')].message = Head(tasks).message
             /\ tasks' = tasks => delivered' = delivered
       /\ Registrations' # Registrations =>
             /\ tasks' = tasks
             /\ delivered' = delivered]_vars

\* two messages were published, the second broadcast callback was registered
\* between them: three tasks were created and run, none of them the second
\* callback with the first message
C37_Witness ==
    /\ Len(message_history) = 2
    /\ Len(broadcast_callbacks) = 2
    /\ subscribers = << >>
    /\ broadcast_callbacks[1] # broadcast_callbacks[2]
    /\ tasks = << >>
    /\ Len(delivered) = 3
    /\ \A k \in DOMAIN delivered :
          ~ (/\ delivered[k].callback = broadcast_callbacks[2]
             /\ delivered[k].message = message_history[1])


\* ---------------------------------------------------------------------------
\* the answer list of a session
\* ---------------------------------------------------------------------------

AnswerOps == {"dsa_answer", "sd_answer", "beh_answer"}

\* the answers of session s before and after a step
AnswersOf(s) == active_sessions[s].candidate_answers
AnswersAfter(s) == active_sessions'[s].candidate_answers

\* the step hands an answer of session s to a role
HandsToRole(s) == req'[s].op \in AnswerOps /\ req'[s] # req[s]

\* the step takes in an answer request of session s
TakesAnswer(s) == req[s].op = "idle" /\ req'[s].op \in AnswerOps

\* C32: every answer step appends exactly one entry to the answer list of its
\* session before a role evaluates, no step shortens or reorders the list, and
\* the role judges the last entry, which is the answer just submitted.
C32_RoleJudgesTheAnswerJustAppended ==
    [][\A s \in Sessions :
          /\ s \in DOMAIN active_sessions'
          /\ Len(AnswersAfter(s)) \in {Len(AnswersOf(s)), Len(AnswersOf(s)) + 1}
          /\ SubSeq(AnswersAfter(s), 1, Len(AnswersOf(s))) = AnswersOf(s)
          /\ TakesAnswer(s) => AnswersAfter(s) = Append(AnswersOf(s), req'[s].answer)
          /\ HandsToRole(s) =>
                /\ AnswersAfter(s) # << >>
                /\ req'[s].judging = AnswersAfter(s)[Len(AnswersAfter(s))]
                /\ req'[s].judging = req'[s].answer]_vars

\* the second answer, different from the first, is with the two roles of the
\* DSA answer step one after the other
C32_Witness ==
    \E s \in Sessions :
        /\ Waiting(s, "dsa_answer", 2)
        /\ Len(AnswersOf(s)) = 2
        /\ AnswersOf(s)[1] # AnswersOf(s)[2]
        /\ req[s].judging = AnswersOf(s)[2]


\* ---------------------------------------------------------------------------
\* a start step that fails
\* ---------------------------------------------------------------------------

\* the step ends the start request of session s with the recruiter's call
\* raising: nothing is published and no session id is returned
StartFailed(s) ==
    /\ req[s].op = "start"
    /\ req'[s] = NoReq
    /\ message_history' = message_history

\* C39: a start step that fails leaves the registry as it was before the
\* request: the session whose id was never returned is not registered.
C39_FailedStartNotRegistered ==
    [][\A s \in SessionIds : StartFailed(s) => s \notin DOMAIN active_sessions']_vars


(***************************************************************************)
(* Sessions side by side: the handlers of different sessions interleave at *)
(* the model calls of their roles, and all of them publish to the one      *)
(* message_bus of main.py.                                                 *)
(***************************************************************************)
PeerIds == 1..MaxPeers

NextPeers ==
    \/ \E r \in BOOLEAN : StartInterviewUpTo(r, MaxPeers)
    \/ \E s \in PeerIds, o \in Outcomes : StartInterviewReturn(s, o)
    \/ \E s \in PeerIds : StartDsa(s)
    \/ \E s \in PeerIds, o \in Outcomes : StartDsaReturn(s, o)

SpecPeers == Init /\ [][NextPeers]_vars

\* the logs of the registered sessions
Logs == [s \in Sessions |-> active_sessions[s].messages]

RECURSIVE Interleaves(_, _)
\* history is an interleaving of the logs: every entry of it is the next entry
\* of one log, and every log is used up
Interleaves(history, logs) ==
    IF history = << >> THEN \A s \in DOMAIN logs : logs[s] = << >>
    ELSE \E s \in DOMAIN logs :
            /\ logs[s] # << >>
            /\ Head(logs[s]) = Head(history)
            /\ Interleaves(Tail(history), [logs EXCEPT ![s] = Tail(@)])

\* C36: while clear_history is not called, the bus history is an interleaving
\* of the session logs: the messages of every log are in the history, and the
\* history restricted to one session's messages is that session's log in the
\* same order, however the steps of the sessions interleave.
C36_HistoryInterleavesSessionLogs == Interleaves(message_history, Logs)

\* two sessions whose steps alternated: the history is neither log after the
\* other
C36_Witness ==
    /\ Sessions = {1, 2}
    /\ Len(message_history) = 4
    /\ Len(Logs[1]) = 2
    /\ message_history # Logs[1] \o Logs[2]
    /\ message_history # Logs[2] \o Logs[1]


\* the closure broadcast of websocket_endpoint: it sends to the websocket that
\* was opened on /ws/{session_id}, and its bare except swallows what send raises
websocket_broadcast(session_id) ==
    [name |-> "ws", kind |-> "ok", session_id |-> session_id]

\* a client opens /ws/{session_id}; the id is not looked up in the registry
WebsocketOpen(session_id) == SubscribeBroadcastCall(websocket_broadcast(session_id))

NextListeners ==
    \/ StartInterviewUpTo(FALSE, MaxPeers)
    \/ \E s \in PeerIds : StartDsa(s)
    \/ \E s \in PeerIds : StartDsaReturn(s, "parsed")
    \/ \E s \in PeerIds : WebsocketOpen(s)
    \/ RunTask

SpecListeners == Init /\ [][NextListeners]_vars

\* the step appends to the log of session s
LogGrew(s) ==
    /\ s \in Sessions
    /\ active_sessions'[s].messages # active_sessions[s].messages

\* C38: a listener opened on the websocket of session S is dispatched only
\* the messages that steps of session S produce.
C38_ListenerGetsOwnSessionOnly ==
    [][\A s \in PeerIds :
          LogGrew(s) => \A k \in DOMAIN NewTasks : NewTasks[k].callback.session_id = s]_vars

\* every publish reaches every open websocket, whatever session it was opened for
C38_EveryListenerGetsEveryMessage ==
    [][\A s \in PeerIds :
          LogGrew(s) => /\ Len(NewTasks) = Len(broadcast_callbacks)
                        /\ \A k \in DOMAIN NewTasks :
                              /\ NewTasks[k].callback = broadcast_callbacks[k]
                              /\ NewTasks[k].message = message_history'[Len(message_history')]]_vars

====
